---- MODULE Spec2Model ----
(***************************************************************************)
(* Adhan Live: the prayer-time schedule kept by PrayerTimesManager, its    *)
(* queries (get_next_prayer, get_time_remaining, is_prayer_time), the      *)
(* progress computation of the display, and the refresh paths of the three *)
(* front-ends (GTK GUI, rich TUI, colored console).                         *)
(*                                                                         *)
(* Time is wall-clock time counted in ticks of 1/SubPerSec second since    *)
(* 00:00 of day 0 of the machine's local zone.  A Python datetime is the   *)
(* tick count of its wall-clock fields; all datetimes handled by one       *)
(* manager carry the same tzinfo, so they compare and subtract by their    *)
(* wall-clock fields, as Python does for operands sharing a tzinfo.        *)
(***************************************************************************)
EXTENDS Integers, Sequences, FiniteSets, TLC

(* ---------------------------------------------------------------- bounds *)
\* Clock resolution of the model: ticks per second (Python: 10^6).
SubPerSec == 2
\* The clock runs over days 0..MaxDay.
MaxDay == 1
\* How far (in ticks) the clock may advance between two reads of one handler.
MaxDrift == 2
\* Fetch threads the GUI may have in flight.
MaxThreads == 1
\* retry_attempts of the configuration runs over 0..MaxAttempts.
MaxAttempts == 3

(* ------------------------------------------------------------ time units *)
Sec == SubPerSec
Minute == 60 * Sec
Hour == 3600 * Sec
Day == 86400 * Sec

Abs(x) == IF x < 0 THEN 0 - x ELSE x

\* datetime.date(): the calendar day of a wall-clock instant.
DateOf(t) == t \div Day
\* date_obj.replace(hour=h, minute=m): the seconds and sub-seconds of
\* date_obj are kept.
ReplaceHM_keeping_seconds(t, h, m) ==
  DateOf(t) * Day + h * Hour + m * Minute + (t % Minute)
\* datetime.replace(hour=h, minute=m, second=0, microsecond=0)
ReplaceHM(t, h, m) == DateOf(t) * Day + h * Hour + m * Minute
\* datetime.replace(hour=0, minute=0, second=0): the microsecond field is kept.
ReplaceMidnight(t) == DateOf(t) * Day + (t % Sec)
\* strftime('%H:%M') as the pair <<hour, minute>>
HourOf(t) == (t % Day) \div Hour
MinuteOf(t) == (t % Hour) \div Minute

(* ---------------------------------------------------------------- prayers *)
Prayers == {"Fajr", "Dhuhr", "Asr", "Maghrib", "Isha"}
PrayerOrder == <<"Fajr", "Dhuhr", "Asr", "Maghrib", "Isha">>
ReverseOrder == <<"Isha", "Maghrib", "Asr", "Dhuhr", "Fajr">>

\* Python None / an empty dict, and a tuple as a sequence.
None == <<>>
EmptyDict == <<>>

(* --------------------------------------------------------------- queries *)
\* The loop of get_next_prayer: the first prayer of the order, from index i
\* on, that is in the dict with a time strictly after now.
RECURSIVE ScanNext(_, _, _)
ScanNext(pt, now, i) ==
  IF i > Len(PrayerOrder) THEN None
  ELSE LET p == PrayerOrder[i] IN
       IF p \in DOMAIN pt /\ pt[p] > now THEN <<p, pt[p]>>
       ELSE ScanNext(pt, now, i + 1)

\* The loop with >= in place of >.
RECURSIVE ScanNextInclusive(_, _, _)
ScanNextInclusive(pt, now, i) ==
  IF i > Len(PrayerOrder) THEN None
  ELSE LET p == PrayerOrder[i] IN
       IF p \in DOMAIN pt /\ pt[p] >= now THEN <<p, pt[p]>>
       ELSE ScanNextInclusive(pt, now, i + 1)

\* get_next_prayer that wraps to the stored Fajr without adding a day.
get_next_prayer_same_day(pt, now) ==
  LET hit == ScanNext(pt, now, 1) IN
  IF hit # None THEN hit
  ELSE IF "Fajr" \in DOMAIN pt THEN <<"Fajr", pt["Fajr"]>>
  ELSE None

\* get_next_prayer that compares with >=.
get_next_prayer_inclusive(pt, now) ==
  LET hit == ScanNextInclusive(pt, now, 1) IN
  IF hit # None THEN hit
  ELSE IF "Fajr" \in DOMAIN pt THEN <<"Fajr", pt["Fajr"] + Day>>
  ELSE None

\* get_next_prayer that wraps to the first stored prayer of the order.
get_next_prayer_first_present(pt, now) ==
  LET hit == ScanNext(pt, now, 1) IN
  IF hit # None THEN hit
  ELSE IF DOMAIN pt # {} THEN
    LET i == CHOOSE j \in 1..Len(PrayerOrder) :
               /\ PrayerOrder[j] \in DOMAIN pt
               /\ \A k \in 1..(j - 1) : PrayerOrder[k] \notin DOMAIN pt
    IN <<PrayerOrder[i], pt[PrayerOrder[i]] + Day>>
  ELSE None

\* PrayerTimesManager.get_next_prayer, now being its reading of the clock.
get_next_prayer(pt, now) ==
  LET hit == ScanNext(pt, now, 1) IN
  IF hit # None THEN hit
  ELSE IF "Fajr" \in DOMAIN pt THEN <<"Fajr", pt["Fajr"] + Day>>
  ELSE None

\* timedelta.seconds: the whole seconds of the duration within its day
\* (the days are a field of their own); Python floors towards -infinity.
TimedeltaSeconds(diff) == (diff \div Sec) % 86400

\* get_time_remaining without the early return for a passed target.
get_time_remaining_unguarded(target, now) ==
  LET s == TimedeltaSeconds(target - now) IN
  <<s \div 3600, (s % 3600) \div 60, s % 60>>

\* PrayerTimesManager.get_time_remaining, now being its reading of the clock.
get_time_remaining(target, now) ==
  LET diff == target - now IN
  IF diff < 0 THEN <<0, 0, 0>>
  ELSE LET s == TimedeltaSeconds(diff) IN
       <<s \div 3600, (s % 3600) \div 60, s % 60>>

\* is_prayer_time with <= 60 seconds.
is_prayer_time_inclusive(pt, prayer, now) ==
  /\ prayer \in DOMAIN pt
  /\ Abs(now - pt[prayer]) <= 60 * Sec

\* PrayerTimesManager.is_prayer_time, now being its reading of the clock.
is_prayer_time(pt, prayer, now) ==
  IF prayer \notin DOMAIN pt THEN FALSE
  ELSE Abs(now - pt[prayer]) < 60 * Sec

(* -------------------------------------------------------------- progress *)
\* The loop over Isha..Fajr of the progress computation: the first prayer of
\* the reverse order whose stored time is strictly before now, else dflt.
RECURSIVE ScanPrev(_, _, _, _)
ScanPrev(pt, now, i, dflt) ==
  IF i > Len(ReverseOrder) THEN dflt
  ELSE LET p == ReverseOrder[i] IN
       IF p \in DOMAIN pt /\ pt[p] < now THEN pt[p]
       ELSE ScanPrev(pt, now, i + 1, dflt)

\* prev_prayer_time: the window start.
prev_prayer_time(pt, now) == ScanPrev(pt, now, 1, ReplaceMidnight(now))

\* elapsed / total_duration without the clamp to [0, 1].
progress_fraction_unclamped(elapsed, total_duration) ==
  IF total_duration > 0 THEN <<elapsed, total_duration>> ELSE <<0, 1>>

\* min(1.0, max(0.0, elapsed / total_duration)) if total_duration > 0 else 0,
\* as the fraction <<numerator, denominator>> (denominator > 0).
progress_fraction(elapsed, total_duration) ==
  IF total_duration > 0 THEN
    IF elapsed <= 0 THEN <<0, 1>>
    ELSE IF elapsed >= total_duration THEN <<1, 1>>
    ELSE <<elapsed, total_duration>>
  ELSE <<0, 1>>

\* The progress computation of update_display / create_next_prayer_panel:
\* prayer_time is the instant get_next_prayer returned, now the display's
\* own reading of the clock.
progress_window(pt, prayer_time, now) ==
  LET prev == prev_prayer_time(pt, now)
      total_duration == prayer_time - prev
      elapsed == now - prev
  IN [start |-> prev, end |-> prayer_time, now |-> now,
      total_duration |-> total_duration, elapsed |-> elapsed,
      fraction |-> progress_fraction(elapsed, total_duration)]

(* ---------------------------------------------------------- time strings *)
\* A Python str is the sequence of its characters.
Digits == {"0", "1", "2", "3", "4", "5", "6", "7", "8", "9"}

DigitVal(c) ==
  CASE c = "0" -> 0 [] c = "1" -> 1 [] c = "2" -> 2 [] c = "3" -> 3
    [] c = "4" -> 4 [] c = "5" -> 5 [] c = "6" -> 6 [] c = "7" -> 7
    [] c = "8" -> 8 [] c = "9" -> 9

RECURSIVE SkipSpaces(_)
SkipSpaces(s) ==
  IF s # <<>> /\ Head(s) = " " THEN SkipSpaces(Tail(s)) ELSE s

RECURSIVE TakeWord(_)
TakeWord(s) ==
  IF s = <<>> \/ Head(s) = " " THEN <<>>
  ELSE <<Head(s)>> \o TakeWord(Tail(s))

\* str.split(): the list of whitespace-separated words; only its emptiness
\* and its first word are used.
SplitIsEmpty(s) == SkipSpaces(s) = <<>>
SplitFirst(s) == TakeWord(SkipSpaces(s))

\* str.split(':'): the list of the fields between colons.
RECURSIVE SplitColon(_)
SplitColon(s) ==
  IF s = <<>> THEN << <<>> >>
  ELSE IF Head(s) = ":" THEN << <<>> >> \o SplitColon(Tail(s))
  ELSE LET r == SplitColon(Tail(s)) IN
       << <<Head(s)>> \o Head(r) >> \o Tail(r)

\* int(str): an optional sign, then one or more digits; else ValueError.
IntBody(s) == IF s # <<>> /\ Head(s) \in {"+", "-"} THEN Tail(s) ELSE s
IntParses(s) ==
  /\ IntBody(s) # <<>>
  /\ \A i \in 1..Len(IntBody(s)) : IntBody(s)[i] \in Digits

RECURSIVE DigitsVal(_, _)
DigitsVal(s, acc) ==
  IF s = <<>> THEN acc ELSE DigitsVal(Tail(s), 10 * acc + DigitVal(Head(s)))

IntVal(s) ==
  IF Head(s) = "-" THEN 0 - DigitsVal(IntBody(s), 0)
  ELSE DigitsVal(IntBody(s), 0)

\* The body of the try block of update() for one time string (already cut to
\* its first word): hour, minute = map(int, time_str.split(':')) and
\* date_obj.replace(hour=hour, minute=minute, ...), which raise ValueError
\* unless there are exactly two integer fields, 0..23 and 0..59.
TimeParses(time_str) ==
  LET parts == SplitColon(time_str) IN
  /\ Len(parts) = 2
  /\ IntParses(parts[1]) /\ IntParses(parts[2])
  /\ IntVal(parts[1]) \in 0..23
  /\ IntVal(parts[2]) \in 0..59

ParsedHour(time_str) == IntVal(SplitColon(time_str)[1])
ParsedMinute(time_str) == IntVal(SplitColon(time_str)[2])

(* ------------------------------------------------------------ the provider *)
\* "HH:MM" from its four digits.
HM(a, b, c, d) == <<a, b, ":", c, d>>

S_Fajr == HM("0", "5", "1", "2")
S_Dhuhr == HM("1", "2", "3", "0")
S_Asr == HM("1", "5", "4", "5") \o <<" ", "(", "E", "E", "T", ")">>
S_Maghrib == HM("1", "8", "2", "0")
S_Isha == HM("1", "9", "5", "0")

\* A Python dict is the function from its keys.
Dict1(k, v) == [x \in {k} |-> v]
Merge(f, g) ==
  [x \in (DOMAIN f) \cup (DOMAIN g) |-> IF x \in DOMAIN g THEN g[x] ELSE f[x]]
Without(f, k) == [x \in (DOMAIN f) \ {k} |-> f[x]]

FullTimings ==
  [p \in Prayers |->
     CASE p = "Fajr" -> S_Fajr [] p = "Dhuhr" -> S_Dhuhr [] p = "Asr" -> S_Asr
       [] p = "Maghrib" -> S_Maghrib [] p = "Isha" -> S_Isha]

\* The "timings" objects the provider may answer with.
TimingsAnswers ==
  { FullTimings,
    Without(FullTimings, "Fajr"),
    Dict1("Fajr", S_Fajr),
    \* Isha after midnight: not increasing within the day
    Merge(FullTimings, Dict1("Isha", HM("0", "0", "1", "0"))),
    \* a field that is no number and an hour out of range
    Merge(FullTimings, Merge(Dict1("Asr", <<"a", "b", ":", "c", "d">>),
                             Dict1("Maghrib", HM("2", "4", "2", "0")))),
    \* an empty time string
    Merge(FullTimings, Dict1("Isha", <<>>)) }

\* The hijri day the provider reports for a requested calendar day.
HijriDay(date) == CASE date = 0 -> "24" [] date = 1 -> "25" [] OTHER -> "26"

\* data['data'] of a successful timings response for the requested date.
Answer(timings, date) ==
  [timings |-> timings,
   hijri |-> [day |-> HijriDay(date), month |-> "Dhu al-Qadah", year |-> "1445"]]

\* The location service's successful answers (lat, lon, timezone).
Riyadh == [lat |-> "24.7", lon |-> "46.7", timezone |-> "Asia/Riyadh"]
LocationAnswers == {Riyadh}

(* ------------------------------------------------------------------ config *)
\* bool(value) is False for None, an empty string and a zero.
Falsy(v) == v \in {"None", "", "0.0"}

\* ZoneInfo(name) resolves these names and raises for every other one.
KnownZones == {"Asia/Riyadh"}
\* Wall-clock offset of a tzinfo from the machine's local zone; "None" is the
\* naive local clock.
ZoneOffset(tz) == IF tz = "Asia/Riyadh" THEN 3 * Hour ELSE 0
\* datetime.now(tz) if tz else datetime.now(), the machine's clock reading c.
Now(tz, c) == c + ZoneOffset(tz)

(* --------------------------------------------------------------- refresh *)
\* PrayerTimesAPI.fetch_prayer_times (GUI and TUI): loc is what get_location
\* returned (None on failure), resp the data of the timings response (None
\* when every request failed).  Gives the config as left behind and the data.
api_fetch_prayer_times(cfg, loc, resp) ==
  LET cfg1 == IF cfg.auto_detect_location /\ loc # None
              THEN [cfg EXCEPT !.latitude = loc.lat, !.longitude = loc.lon,
                               !.timezone = loc.timezone]
              ELSE cfg
  IN IF Falsy(cfg1.latitude) \/ Falsy(cfg1.longitude)
     THEN [config |-> cfg1, data |-> None]
     ELSE [config |-> cfg1, data |-> resp]

\* The for loop of update() from index i of the order, acc being
\* self.prayer_times so far.  split()[0] is outside the try block: an empty
\* or blank time string raises IndexError out of update().
RECURSIVE StoreTimes(_, _, _, _)
StoreTimes(timings, date_obj, i, acc) ==
  IF i > Len(PrayerOrder) THEN [raised |-> FALSE, prayer_times |-> acc]
  ELSE LET p == PrayerOrder[i] IN
       IF p \notin DOMAIN timings THEN StoreTimes(timings, date_obj, i + 1, acc)
       ELSE IF SplitIsEmpty(timings[p]) THEN [raised |-> TRUE, prayer_times |-> acc]
       ELSE LET time_str == SplitFirst(timings[p]) IN
            IF TimeParses(time_str)
            THEN StoreTimes(timings, date_obj, i + 1,
                   Merge(acc, Dict1(p, ReplaceHM(date_obj, ParsedHour(time_str),
                                                 ParsedMinute(time_str)))))
            ELSE StoreTimes(timings, date_obj, i + 1, acc)

\* f"{day} {month} {year}"
HijriLabel(hijri) == <<hijri.day, " ", hijri.month, " ", hijri.year>>

\* update() that empties the schedule before it looks at the fetched data.
update_clearing_first(mgr, cfg, loc, resp, c2) ==
  LET f == api_fetch_prayer_times(cfg, loc, resp) IN
  IF f.data = None
  THEN [ret |-> "False", prayer_times |-> EmptyDict, hijri_date |-> <<>>,
        timezone |-> "None", config |-> f.config]
  ELSE LET tz == IF Falsy(f.config.timezone) THEN mgr.timezone
                 ELSE IF f.config.timezone \in KnownZones THEN f.config.timezone
                 ELSE "None"
           st == StoreTimes(f.data.timings, Now(tz, c2), 1, EmptyDict)
       IN IF st.raised
          THEN [ret |-> "raised", prayer_times |-> st.prayer_times,
                hijri_date |-> mgr.hijri_date, timezone |-> tz, config |-> f.config]
          ELSE [ret |-> "True", prayer_times |-> st.prayer_times,
                hijri_date |-> HijriLabel(f.data.hijri), timezone |-> tz,
                config |-> f.config]

\* PrayerTimesManager.update(): mgr is the manager's fields before the call,
\* c2 the clock reading behind date_obj.  ret is "True", "False", or "raised"
\* when the IndexError leaves update() with the fields as they then stand.
update(mgr, cfg, loc, resp, c2) ==
  LET f == api_fetch_prayer_times(cfg, loc, resp) IN
  IF f.data = None
  THEN [ret |-> "False", prayer_times |-> mgr.prayer_times,
        hijri_date |-> mgr.hijri_date, timezone |-> mgr.timezone,
        config |-> f.config]
  ELSE LET tz == IF Falsy(f.config.timezone) THEN mgr.timezone
                 ELSE IF f.config.timezone \in KnownZones THEN f.config.timezone
                 ELSE "None"
           st == StoreTimes(f.data.timings, Now(tz, c2), 1, EmptyDict)
       IN IF st.raised
          THEN [ret |-> "raised", prayer_times |-> st.prayer_times,
                hijri_date |-> mgr.hijri_date, timezone |-> tz, config |-> f.config]
          ELSE [ret |-> "True", prayer_times |-> st.prayer_times,
                hijri_date |-> HijriLabel(f.data.hijri), timezone |-> tz,
                config |-> f.config]

(* ------------------------------------------------------- the console's own *)
\* AdhanLive.get_location (console): on success the config takes the
\* location and self.timezone = ZoneInfo(...), which raises into the except
\* for an unknown name after the config was written; the result is None then.
console_get_location(cfg, tz, loc) ==
  IF loc = None THEN [found |-> FALSE, config |-> cfg, timezone |-> tz]
  ELSE LET cfg1 == [cfg EXCEPT !.latitude = loc.lat, !.longitude = loc.lon,
                               !.timezone = loc.timezone]
       IN IF loc.timezone \in KnownZones
          THEN [found |-> TRUE, config |-> cfg1, timezone |-> loc.timezone]
          ELSE [found |-> FALSE, config |-> cfg1, timezone |-> tz]

\* AdhanLive.fetch_prayer_times (console): the five raw time strings are
\* stored only when the response holds all five (a missing key raises
\* KeyError inside the try); ret is the returned bool.
console_fetch_prayer_times(cfg, tz, pt, loc, resp) ==
  LET g == IF cfg.auto_detect_location
              /\ (Falsy(cfg.latitude) \/ Falsy(cfg.longitude))
           THEN console_get_location(cfg, tz, loc)
           ELSE [found |-> TRUE, config |-> cfg, timezone |-> tz]
  IN IF ~g.found THEN [ret |-> "False", prayer_times |-> pt,
                        timezone |-> g.timezone, config |-> g.config]
     ELSE IF resp = None \/ DOMAIN resp.timings # Prayers
     THEN [ret |-> "False", prayer_times |-> pt, timezone |-> g.timezone,
           config |-> g.config]
     ELSE [ret |-> "True", prayer_times |-> resp.timings,
           timezone |-> g.timezone, config |-> g.config]

\* ord(c) of the characters that occur in time strings.
CharOrd(c) ==
  CASE c = " " -> 32 [] c = "(" -> 40 [] c = ")" -> 41
    [] c \in Digits -> 48 + DigitVal(c)
    [] c = ":" -> 58 [] c = "E" -> 69 [] c = "T" -> 84
    [] c = "a" -> 97 [] c = "b" -> 98 [] c = "c" -> 99 [] c = "d" -> 100

\* a > b of two Python strings: by the first character that differs, a
\* proper prefix being the smaller.
RECURSIVE StrGreater(_, _)
StrGreater(a, b) ==
  IF a = <<>> THEN FALSE
  ELSE IF b = <<>> THEN TRUE
  ELSE IF Head(a) = Head(b) THEN StrGreater(Tail(a), Tail(b))
  ELSE CharOrd(Head(a)) > CharOrd(Head(b))

\* The for loop of AdhanLive.get_next_prayer over enabled_prayers, from
\* index i: the first stored prayer whose string is greater than
\* current_time.
RECURSIVE ConsoleScanNext(_, _, _)
ConsoleScanNext(pt, current_time, i) ==
  IF i > Len(PrayerOrder) THEN None
  ELSE IF PrayerOrder[i] \in DOMAIN pt /\ StrGreater(pt[PrayerOrder[i]], current_time)
  THEN <<PrayerOrder[i], pt[PrayerOrder[i]]>>
  ELSE ConsoleScanNext(pt, current_time, i + 1)

\* AdhanLive.get_next_prayer (console), current_time being strftime('%H:%M')
\* of its reading of the clock: the prayer and its time string (the Arabic
\* name is left out); None stands for the pair (None, None) of an empty
\* schedule; after the last prayer the first enabled one, Fajr.
console_get_next_prayer(pt, current_time) ==
  IF pt = EmptyDict THEN None
  ELSE LET hit == ConsoleScanNext(pt, current_time, 1) IN
       IF hit # None THEN hit
       ELSE <<"Fajr", IF "Fajr" \in DOMAIN pt THEN pt["Fajr"] ELSE <<>>>>

\* datetime.strptime(s, '%H:%M') succeeds on one or two digits, a colon and
\* one or two digits, within 0..23 and 0..59, and on nothing else.
StrptimeParses(s) ==
  LET parts == SplitColon(s) IN
  /\ Len(parts) = 2
  /\ \A i \in 1..2 : /\ Len(parts[i]) \in 1..2
                      /\ \A j \in 1..Len(parts[i]) : parts[i][j] \in Digits
  /\ DigitsVal(parts[1], 0) \in 0..23
  /\ DigitsVal(parts[2], 0) \in 0..59

\* AdhanLive.get_time_until_prayer (console), now being its reading of the
\* clock: the time of day on today's date, a day later if that has passed;
\* (0, 0, 0) when the string does not parse.
get_time_until_prayer(prayer_time, now) ==
  IF ~StrptimeParses(prayer_time) THEN <<0, 0, 0>>
  ELSE LET today == ReplaceHM(now, DigitsVal(SplitColon(prayer_time)[1], 0),
                              DigitsVal(SplitColon(prayer_time)[2], 0))
           prayer_dt == IF today < now THEN today + Day ELSE today
           s == TimedeltaSeconds(prayer_dt - now)
       IN <<s \div 3600, (s % 3600) \div 60, s % 60>>

(* ---------------------------------------------------------------- the clock *)
\* Wall-clock times of day the model's clock visits: the tick before, of and
\* after Dhuhr and Isha and the two sides of the 60-second window around
\* Dhuhr; Fajr and Asr on the tick; midnight with the ticks around it; 14:00
\* and 09:04:50; and the machine's local midnight as a clock of a known zone
\* shows it.
GridTimes == {12 * Hour + 30 * Minute, 19 * Hour + 50 * Minute}
NearOffsets == {0 - 1, 0, 1}
WindowTimes == {12 * Hour + 30 * Minute}
WindowOffsets ==
  {0 - 61 * Sec, 0 - 60 * Sec, 1 - 60 * Sec, 60 * Sec - 1, 60 * Sec, 61 * Sec}
WallTicks ==
  {g + o : g \in GridTimes, o \in NearOffsets}
    \cup {g + o : g \in WindowTimes, o \in WindowOffsets}
    \cup {0, 1, Day - 1, 5 * Hour + 12 * Minute, 5 * Hour + 12 * Minute + 1,
          15 * Hour + 45 * Minute, 14 * Hour, 9 * Hour + 4 * Minute + 50 * Sec}
    \cup {ZoneOffset(z) + o : z \in KnownZones, o \in {0 - 1, 0}}

\* Those wall-clock times on days 0..MaxDay.
ClockTicks == {d * Day + w : d \in 0..MaxDay, w \in WallTicks}

\* The clock's instants in increasing order.
ClockSeq ==
  [i \in 1..Cardinality(ClockTicks) |->
     CHOOSE t \in ClockTicks : Cardinality({u \in ClockTicks : u < t}) = i - 1]

\* The reading of the machine's clock, at or after c, with which the next
\* handler starts: the one that shows, in the zone tz, the next of the
\* wall-clock instants (none once the clock has run past the last one).
NextFrom(c, tz) ==
  LET rank == Cardinality({t \in ClockTicks : t < c + ZoneOffset(tz)})
  IN IF rank < Len(ClockSeq) THEN {ClockSeq[rank + 1] - ZoneOffset(tz)} ELSE {}

\* The clock readings of one handler: the i-th read returns t, or t + d from
\* the k-th read on (the clock advances while the handler runs).
Reading(t, k, d, i) == IF i < k THEN t ELSE t + d
Drifts == 1..MaxDrift

(* ------------------------------------------------------------------ state *)
VARIABLES
  app,                \* which front-end runs: "gui", "tui" or "console"
  timings,            \* the provider's timings for the location of the run
  pc,                 \* "start", "live", "exit" (returned) or "crashed"
  config,             \* ConfigManager.config / AdhanLive.config
  prayer_times,       \* PrayerTimesManager.prayer_times
  hijri_date,         \* PrayerTimesManager.hijri_date
  timezone,           \* PrayerTimesManager.timezone
  c_prayer_times,     \* AdhanLive.prayer_times (console): raw time strings
  c_timezone,         \* AdhanLive.timezone (console)
  last_played_prayer,
  last_update_date,   \* last_update_date / last_fetch_date
  fetch_threads,      \* GUI: fetch threads running prayer_manager.update()
  loaded,             \* GUI: results queued by idle_add for on_data_loaded
  thread,             \* GUI: the locals of the thread that is inside update()
  clock,              \* the earliest instant of the next clock reading
  upd,                \* what the refresh of the last step returned, or "none"
  display,            \* what the last display pass computed
  is_playing,         \* AudioPlayer.is_playing
  audio_threads,      \* AudioPlayer: the threads running _play_audio
  api,                \* PrayerTimesAPI: the retry loop under way
  config_file,        \* the characters of config.json
  saving              \* ConfigManager: the set() calls under way, per thread

vars == <<app, timings, pc, config, prayer_times, hijri_date, timezone, c_prayer_times,
          c_timezone, last_played_prayer, last_update_date, fetch_threads,
          loaded, thread, clock, upd, display, is_playing, audio_threads, api,
          config_file, saving>>

\* The audio player, the retry loops and the configuration file, which the
\* handlers of the schedule and its display leave alone.
side == <<is_playing, audio_threads, api, config_file, saving>>

\* No playback thread, no request loop and no set() under way, the
\* configuration file not yet written.
Idle ==
  /\ is_playing = FALSE
  /\ audio_threads = [started |-> 0, playing |-> 0]
  /\ api = None
  /\ config_file = <<>>
  /\ saving = EmptyDict

\* last_update_date = None
NoDate == -1

manager == [prayer_times |-> prayer_times, hijri_date |-> hijri_date,
            timezone |-> timezone]

\* Nothing displayed yet.
NoDisplay == [times |-> EmptyDict, now |-> 0, now_next |-> 0, now_remaining |-> 0,
              next |-> None, remaining |-> None, progress |-> None,
              checked |-> EmptyDict, fired |-> "None", torn |-> FALSE,
              entry |-> None, again |-> FALSE, today |-> 0, refresh |-> FALSE,
              raised |-> FALSE, console |-> None]

\* The configurations a run may start from: the defaults, and a location set
\* by hand without a zone.
InitialConfigs ==
  { [auto_detect_location |-> TRUE, latitude |-> "None", longitude |-> "None",
     timezone |-> "None"],
    [auto_detect_location |-> FALSE, latitude |-> "24.7", longitude |-> "46.7",
     timezone |-> "None"] }

\* The state after construction, the configuration file holding one of cfgs.
InitWith(cfgs) ==
  /\ app \in {"gui", "tui", "console"}
  /\ timings \in TimingsAnswers
  /\ pc = IF app = "gui" THEN "live" ELSE "start"
  /\ config \in cfgs
  /\ prayer_times = EmptyDict
  /\ hijri_date = <<>>
  /\ timezone = "None"
  /\ c_prayer_times = EmptyDict
  /\ c_timezone = "None"
  /\ last_played_prayer = "None"
  /\ last_update_date = NoDate
  /\ fetch_threads = IF app = "gui" THEN 1 ELSE 0
  /\ loaded = <<>>
  /\ thread = None
  /\ clock = 0
  /\ upd = "none"
  /\ display = NoDisplay
  /\ Idle

Init == InitWith(InitialConfigs)

(* ------------------------------------------------------ the display pass *)
PrayerIndex(p) == CHOOSE i \in 1..Len(PrayerOrder) : PrayerOrder[i] = p

\* The loop of check_prayer_time: is_prayer_time is asked prayer by prayer,
\* each with a clock reading of its own (reads b+1..b+5), up to the first one
\* that is current and is not last_played_prayer; that one fires playback and
\* the notification and becomes last_played_prayer.
check_prayer_time(pt, tz, lpp, t, k, d, b) ==
  LET at(i) == Now(tz, Reading(t, k, d, b + i))
      hits == {i \in 1..Len(PrayerOrder) :
                 /\ is_prayer_time(pt, PrayerOrder[i], at(i))
                 /\ PrayerOrder[i] # lpp}
      first == IF hits = {} THEN 0 ELSE CHOOSE i \in hits : \A j \in hits : i <= j
      upto == IF first = 0 THEN Len(PrayerOrder) ELSE first
  IN [checked |-> [p \in {PrayerOrder[i] : i \in 1..upto} |->
                     [now |-> at(PrayerIndex(p)),
                      is |-> is_prayer_time(pt, p, at(PrayerIndex(p)))]],
      fired |-> IF first = 0 THEN "None" ELSE PrayerOrder[first],
      last_played_prayer |-> IF first = 0 THEN lpp ELSE PrayerOrder[first]]

\* AdhanLiveWindow.check_prayer_time returns at once on an empty schedule.
gui_check_prayer_time(pt, tz, lpp, t, k, d, b) ==
  IF pt = EmptyDict
  THEN [checked |-> EmptyDict, fired |-> "None", last_played_prayer |-> lpp]
  ELSE check_prayer_time(pt, tz, lpp, t, k, d, b)

\* AdhanLiveWindow.update_display: reads b+1 (now), b+2 (get_next_prayer),
\* b+3 (get_time_remaining), b+4..b+8 (check_prayer_time), b+9 (the date).
\* spawn: initialize_data() is called for a changed date.  The record of the
\* pass keeps, as today, the date in the manager's zone at the reading of the
\* date check and, as refresh, whether the check asked for a refresh.
update_display(pt, tz, lpp, lud, t, k, d, b) ==
  LET now == Now(tz, Reading(t, k, d, b + 1))
      now_next == Now(tz, Reading(t, k, d, b + 2))
      now_remaining == Now(tz, Reading(t, k, d, b + 3))
      next_prayer_data == get_next_prayer(pt, now_next)
      chk == gui_check_prayer_time(pt, tz, lpp, t, k, d, b + 3)
      current_date == DateOf(Now(tz, Reading(t, k, d, b + 9)))
  IN [display |->
        [times |-> pt, now |-> now, now_next |-> now_next,
         now_remaining |-> now_remaining,
         next |-> next_prayer_data,
         remaining |-> IF next_prayer_data = None THEN None
                       ELSE get_time_remaining(next_prayer_data[2], now_remaining),
         progress |-> IF next_prayer_data = None THEN None
                      ELSE progress_window(pt, next_prayer_data[2], now),
         checked |-> chk.checked, fired |-> chk.fired, torn |-> FALSE,
         entry |-> None, again |-> FALSE,
         today |-> current_date,
         refresh |-> (lud # NoDate /\ lud # current_date),
         raised |-> FALSE, console |-> None],
      last_played_prayer |-> chk.last_played_prayer,
      spawn |-> (lud # NoDate /\ lud # current_date)]

\* The TUI's pass: check_prayer_time (reads b+1..b+5), then
\* create_next_prayer_panel: get_next_prayer (b+6), get_time_remaining
\* (b+7) and only then its own now (b+8).
tui_render(pt, tz, lpp, t, k, d, b) ==
  LET chk == check_prayer_time(pt, tz, lpp, t, k, d, b)
      now_next == Now(tz, Reading(t, k, d, b + 6))
      now_remaining == Now(tz, Reading(t, k, d, b + 7))
      now == Now(tz, Reading(t, k, d, b + 8))
      next_prayer_data == get_next_prayer(pt, now_next)
  IN [display |->
        [times |-> pt, now |-> now, now_next |-> now_next,
         now_remaining |-> now_remaining,
         next |-> next_prayer_data,
         remaining |-> IF next_prayer_data = None THEN None
                       ELSE get_time_remaining(next_prayer_data[2], now_remaining),
         progress |-> IF next_prayer_data = None THEN None
                      ELSE progress_window(pt, next_prayer_data[2], now),
         checked |-> chk.checked, fired |-> chk.fired, torn |-> FALSE,
         entry |-> None, again |-> FALSE, today |-> 0, refresh |-> FALSE,
         raised |-> FALSE, console |-> None],
      last_played_prayer |-> chk.last_played_prayer]

\* The record of a pass d joined to the history of playback: entry is the
\* prayer, with its stored time, for which playback and the notification
\* were last triggered, again tells that this pass triggered them for that
\* same entry once more.
Played(d) ==
  IF d.fired = "None" THEN [d EXCEPT !.entry = display.entry]
  ELSE [d EXCEPT !.entry = <<d.fired, d.times[d.fired]>>,
                 !.again = (display.entry = <<d.fired, d.times[d.fired]>>)]

\* What the services may answer: a location or None, the data for the
\* requested date or None.
LocationResults == LocationAnswers \cup {None}
TimingsResults(date) == {Answer(timings, date), None}

\* get_location() is called, and may fail, only with detection switched on.
Located(cfg) == IF cfg.auto_detect_location THEN LocationResults ELSE {None}
\* The timings request is made, and may fail, only once both coordinates
\* are there.
Requested(cfg, loc, date) ==
  LET c1 == api_fetch_prayer_times(cfg, loc, None).config
  IN IF Falsy(c1.latitude) \/ Falsy(c1.longitude) THEN {None}
     ELSE TimingsResults(date)

\* Fetch threads started whose result on_data_loaded has not yet handled.
InFlight == fetch_threads + Len(loaded)

\* The schedule a display pass of the main thread finds while a fetch thread
\* is between two statements of update(): neither the one update() started
\* from nor the one it ends with.
Torn == thread # None /\ manager # thread.old /\ manager # thread.new

\* The tzinfo the stored times carry: that of date_obj of the update() that
\* stored them, which is self.timezone except between the assignment of
\* self.timezone and self.prayer_times = {} of an update() under way.
Stamp == IF thread # None /\ thread.at = 0 THEN thread.old.timezone ELSE timezone

\* A comparison or a difference of a stored time and now raises TypeError
\* when one of the two is aware and the other naive.
Mixed == prayer_times # EmptyDict /\ (Stamp = "None") # (timezone = "None")

(* -------------------------------------------------------------------- GUI *)
\* A timer pass whose get_next_prayer takes the prayer it returns out of the
\* schedule.
GuiTick_consuming ==
  /\ app = "gui" /\ pc = "live"
  /\ \E t \in IF thread = None THEN NextFrom(clock, timezone) ELSE {clock},
        k \in IF thread = None THEN {2, 10} ELSE {10}, d \in Drifts :
     \E r \in {update_display(prayer_times, timezone, last_played_prayer,
                               last_update_date, t, k, d, 0)} :
          /\ display' = Played([r.display EXCEPT !.torn = Torn])
          /\ prayer_times' = IF r.display.next = None THEN prayer_times
                             ELSE Without(prayer_times, r.display.next[1])
          /\ last_played_prayer' = r.last_played_prayer
          /\ fetch_threads' = IF r.spawn /\ InFlight < MaxThreads
                              THEN fetch_threads + 1 ELSE fetch_threads
          /\ clock' = IF thread = None THEN Reading(t, k, d, 9) + 1 ELSE clock
  /\ upd' = "none"
  /\ UNCHANGED <<side, app, timings, pc, config, hijri_date, timezone,
                 c_prayer_times, c_timezone, last_update_date, loaded, thread>>

\* The 1-second timer: update_display (reads 1..9), whose date check calls
\* initialize_data() and so starts a fetch thread.  A pass that runs while a
\* fetch thread is between two statements of update() reads the clock where
\* it stands: the thread is through within that same instant.  With stored
\* times and a now of which one is aware and the other naive the pass ends in
\* the TypeError its first query, get_next_prayer, raises.
GuiTick ==
  /\ app = "gui" /\ pc = "live"
  /\ \E t \in IF thread = None THEN NextFrom(clock, timezone) ELSE {clock},
        k \in IF thread = None THEN {2, 10} ELSE {10}, d \in Drifts :
     \E r \in {update_display(prayer_times, timezone, last_played_prayer,
                               last_update_date, t, k, d, 0)} :
          IF Mixed
          THEN /\ display' = [display EXCEPT !.raised = TRUE]
               /\ UNCHANGED <<last_played_prayer, fetch_threads, clock>>
          ELSE /\ display' = Played([r.display EXCEPT !.torn = Torn])
               /\ last_played_prayer' = r.last_played_prayer
               /\ fetch_threads' = IF r.spawn /\ InFlight < MaxThreads
                                   THEN fetch_threads + 1 ELSE fetch_threads
               /\ clock' = IF thread = None THEN Reading(t, k, d, 9) + 1 ELSE clock
  /\ upd' = "none"
  /\ UNCHANGED <<side, app, timings, pc, config, prayer_times, hijri_date, timezone,
                 c_prayer_times, c_timezone, last_update_date, loaded, thread>>

\* on_refresh_clicked: initialize_data() starts a fetch thread.
GuiRefreshClicked ==
  /\ app = "gui" /\ pc = "live"
  /\ InFlight < MaxThreads
  /\ fetch_threads' = fetch_threads + 1
  /\ upd' = "none"
  /\ UNCHANGED <<side, app, timings, pc, config, prayer_times, hijri_date, timezone,
                 c_prayer_times, c_timezone, last_played_prayer,
                 last_update_date, clock, display, loaded, thread>>

\* on_refresh_clicked pressed while the fetch threads started earlier have not
\* all been handled by on_data_loaded: initialize_data() starts one more.
GuiRefreshClickedInFlight ==
  /\ app = "gui" /\ pc = "live"
  /\ InFlight = MaxThreads
  /\ fetch_threads' = fetch_threads + 1
  /\ upd' = "none"
  /\ UNCHANGED <<side, app, timings, pc, config, prayer_times, hijri_date, timezone,
                 c_prayer_times, c_timezone, last_played_prayer,
                 last_update_date, clock, display, loaded, thread>>

\* The next index of the order, from i on, whose prayer is in timings (one
\* past the end if none): the loop of update() passes over the others
\* without touching anything.
RECURSIVE NextPresent(_, _)
NextPresent(tm, i) ==
  IF i > Len(PrayerOrder) THEN Len(PrayerOrder) + 1
  ELSE IF PrayerOrder[i] \in DOMAIN tm THEN i
  ELSE NextPresent(tm, i + 1)

\* fetch_data of initialize_data, on its thread: prayer_manager.update(),
\* then GLib.idle_add(on_data_loaded, success); an update() that raised ends
\* the thread without it.  The thread runs between two turns of the main
\* loop: it reads the clock where that stands.
GuiFetchData ==
  /\ app = "gui" /\ pc = "live"
  /\ fetch_threads > 0 /\ thread = None
  /\ \E loc \in Located(config) :
     \E resp \in Requested(config, loc, DateOf(clock)) :
     \E u \in {update(manager, config, loc, resp, clock)} :
          /\ upd' = u.ret
          /\ config' = u.config
          /\ prayer_times' = u.prayer_times
          /\ hijri_date' = u.hijri_date
          /\ timezone' = u.timezone
          /\ loaded' = IF u.ret = "raised" THEN loaded ELSE Append(loaded, u.ret)
  /\ fetch_threads' = fetch_threads - 1
  /\ UNCHANGED <<side, app, timings, pc, c_prayer_times, c_timezone,
                 last_played_prayer, last_update_date, display, clock, thread>>

\* fetch_data of initialize_data with update() taken statement by statement,
\* the main loop running in between: prayer_manager.update() up to date_obj.  Without data it returns False and fetch_data queues
\* on_data_loaded(False).  With data self.timezone is assigned and the thread
\* goes on statement by statement, the main loop's handlers running in
\* between; old and new remember the schedule before and after this update.
\* The thread runs between two turns of the main loop: it reads the clock
\* where that stands.
GuiThreadFetch ==
  /\ app = "gui" /\ pc = "live"
  /\ fetch_threads > 0 /\ thread = None
  /\ \E loc \in Located(config) :
     \E resp \in Requested(config, loc, DateOf(clock)) :
     \E u \in {update(manager, config, loc, resp, clock)} :
          /\ config' = u.config
          /\ timezone' = u.timezone
          /\ IF u.ret = "False"
             THEN /\ upd' = "False"
                  /\ prayer_times' = u.prayer_times
                  /\ hijri_date' = u.hijri_date
                  /\ loaded' = Append(loaded, "False")
                  /\ fetch_threads' = fetch_threads - 1
                  /\ thread' = None
             ELSE /\ upd' = "none"
                  /\ thread' = [at |-> 0, date_obj |-> Now(u.timezone, clock),
                                data |-> resp, old |-> manager,
                                new |-> IF u.ret = "True"
                                        THEN [prayer_times |-> u.prayer_times,
                                              hijri_date |-> u.hijri_date,
                                              timezone |-> u.timezone]
                                        ELSE None]
                  /\ UNCHANGED <<prayer_times, hijri_date, loaded, fetch_threads>>
  /\ UNCHANGED <<side, app, timings, pc, c_prayer_times, c_timezone,
                 last_played_prayer, last_update_date, display, clock>>

\* The thread inside update(): self.prayer_times = {}.
GuiThreadClear ==
  /\ app = "gui" /\ thread # None /\ thread.at = 0
  /\ prayer_times' = EmptyDict
  /\ thread' = [thread EXCEPT !.at = NextPresent(thread.data.timings, 1)]
  /\ upd' = "none"
  /\ UNCHANGED <<side, app, timings, pc, config, hijri_date, timezone, c_prayer_times,
                 c_timezone, last_played_prayer, last_update_date,
                 fetch_threads, loaded, clock, display>>

\* The thread inside update(): one turn of the for loop, for a prayer the
\* timings hold.  An empty time string raises out of update() and fetch_data:
\* the thread ends without queueing on_data_loaded.
GuiThreadStore ==
  /\ app = "gui" /\ thread # None /\ thread.at \in 1..Len(PrayerOrder)
  /\ \E p \in {PrayerOrder[thread.at]} :
     \E st \in {StoreTimes(Dict1(p, thread.data.timings[p]), thread.date_obj, 1,
                           prayer_times)} :
       IF st.raised
       THEN /\ upd' = "raised"
            /\ thread' = None
            /\ fetch_threads' = fetch_threads - 1
            /\ UNCHANGED prayer_times
       ELSE /\ upd' = "none"
            /\ prayer_times' = st.prayer_times
            /\ thread' = [thread EXCEPT
                            !.at = NextPresent(thread.data.timings, thread.at + 1)]
            /\ UNCHANGED fetch_threads
  /\ UNCHANGED <<side, app, timings, pc, config, hijri_date, timezone, c_prayer_times,
                 c_timezone, last_played_prayer, last_update_date, loaded,
                 clock, display>>

\* The thread past the loop: self.hijri_date, return True, and fetch_data's
\* GLib.idle_add(on_data_loaded, True).
GuiThreadFinish ==
  /\ app = "gui" /\ thread # None /\ thread.at = Len(PrayerOrder) + 1
  /\ hijri_date' = HijriLabel(thread.data.hijri)
  /\ upd' = "True"
  /\ loaded' = Append(loaded, "True")
  /\ thread' = None
  /\ fetch_threads' = fetch_threads - 1
  /\ UNCHANGED <<side, app, timings, pc, config, prayer_times, timezone, c_prayer_times,
                 c_timezone, last_played_prayer, last_update_date, clock,
                 display>>

\* on_data_loaded, on the main loop: on success update_prayer_list,
\* update_display and last_update_date, all reading the clock at t; on
\* failure the error dialog.  A TypeError out of update_display leaves
\* on_data_loaded before last_update_date is assigned.
GuiDataLoaded ==
  /\ app = "gui" /\ pc = "live"
  /\ loaded # <<>>
  /\ loaded' = Tail(loaded)
  /\ IF Head(loaded) = "True"
     THEN \E t \in NextFrom(clock, timezone) :
          \E r \in {update_display(prayer_times, timezone, last_played_prayer,
                                    last_update_date, t, 12, 0, 1)} :
            IF Mixed
            THEN /\ display' = [display EXCEPT !.raised = TRUE]
                 /\ UNCHANGED <<last_played_prayer, last_update_date,
                                fetch_threads, clock>>
            ELSE /\ display' = Played([r.display EXCEPT !.torn = Torn])
                 /\ last_played_prayer' = r.last_played_prayer
                 /\ last_update_date' = DateOf(Now(timezone, t))
                 /\ fetch_threads' = IF r.spawn /\ InFlight <= MaxThreads
                                     THEN fetch_threads + 1 ELSE fetch_threads
                 /\ clock' = t + 1
     ELSE UNCHANGED <<display, last_played_prayer, last_update_date,
                      fetch_threads, clock>>
  /\ upd' = "none"
  /\ UNCHANGED <<side, app, timings, pc, config, prayer_times, hijri_date, timezone,
                 c_prayer_times, c_timezone, thread>>

\* What the user may leave in the settings dialog's timezone entry next to
\* new coordinates: nothing, or a name ZoneInfo does not resolve.
SettingsZones == {"", "Nowhere/Zone"}

\* on_settings_clicked answered with OK, the coordinates changed:
\* save_settings() writes the location, the timezone entry's text and
\* auto_detect_location = False, and initialize_data() starts a fetch thread.
GuiSettingsSaved ==
  /\ app = "gui" /\ pc = "live"
  /\ InFlight < MaxThreads
  /\ config.latitude # "21.4"
  /\ \E new_tz \in SettingsZones :
       config' = [auto_detect_location |-> FALSE, latitude |-> "21.4",
                  longitude |-> "39.8", timezone |-> new_tz]
  /\ fetch_threads' = fetch_threads + 1
  /\ upd' = "none"
  /\ UNCHANGED <<side, app, timings, pc, prayer_times, hijri_date, timezone,
                 c_prayer_times, c_timezone, last_played_prayer,
                 last_update_date, clock, display, loaded, thread>>

(* -------------------------------------------------------------------- TUI *)
\* run_live up to its loop: initialize() (update(): reads 1, 2; sleep(1)),
\* last_update_date (read 3) and the first render, which draws the panels
\* (reads 9..11) without check_prayer_time.
TuiInitialize ==
  /\ app = "tui" /\ pc = "start"
  /\ \E t \in NextFrom(clock, timezone), k \in {11, 12}, d \in Drifts :
     \E loc \in Located(config) :
     \E resp \in Requested(config, loc, DateOf(Reading(t, k, d, 1))) :
     \E u \in {update(manager, config, loc, resp, Reading(t, k, d, 2))} :
     \E r \in {tui_render(u.prayer_times, u.timezone, last_played_prayer,
                           t + Sec, k, d, 3)} :
          /\ upd' = u.ret
          /\ config' = u.config
          /\ prayer_times' = u.prayer_times
          /\ hijri_date' = u.hijri_date
          /\ timezone' = u.timezone
          /\ IF u.ret = "True"
             THEN /\ pc' = "live"
                  /\ last_update_date' = DateOf(Reading(t + Sec, k, d, 3))
                  /\ display' = [r.display EXCEPT
                                   !.checked = EmptyDict, !.fired = "None",
                                   !.today = DateOf(Now(u.timezone,
                                                        Reading(t + Sec, k, d, 3)))]
                  /\ clock' = Reading(t + Sec, k, d, 11) + 1
                  /\ UNCHANGED last_played_prayer
             ELSE /\ pc' = IF u.ret = "raised" THEN "crashed" ELSE "exit"
                  /\ UNCHANGED <<last_update_date, display, clock,
                                 last_played_prayer>>
  /\ UNCHANGED <<side, app, timings, c_prayer_times, c_timezone, fetch_threads, loaded,
                 thread>>

\* One turn of the loop of run_live: update_if_needed (read 1: the local
\* date; update(): reads 2, 3), check_prayer_time (reads 4..8),
\* render_live_view (reads 9..11), sleep(1).
TuiIteration ==
  /\ app = "tui" /\ pc = "live"
  /\ \E t \in NextFrom(clock, timezone), k \in {11, 12}, d \in Drifts :
     \E loc \in IF last_update_date # DateOf(Reading(t, k, d, 1))
                THEN Located(config) ELSE {None} :
     \E resp \in IF last_update_date # DateOf(Reading(t, k, d, 1))
                 THEN Requested(config, loc, DateOf(Reading(t, k, d, 2)))
                 ELSE {None} :
     \E current_date \in {DateOf(Reading(t, k, d, 1))} :
     \E needed \in {last_update_date # current_date} :
     \E u \in {IF needed
                THEN update(manager, config, loc, resp, Reading(t, k, d, 3))
                ELSE [ret |-> "none", prayer_times |-> prayer_times,
                      hijri_date |-> hijri_date, timezone |-> timezone,
                      config |-> config]} :
     \E r \in {tui_render(u.prayer_times, u.timezone,
                           IF needed THEN "None" ELSE last_played_prayer,
                           t, k, d, 3)} :
          /\ upd' = u.ret
          /\ config' = u.config
          /\ prayer_times' = u.prayer_times
          /\ hijri_date' = u.hijri_date
          /\ timezone' = u.timezone
          /\ IF u.ret = "raised"
             THEN /\ pc' = "crashed"
                  /\ clock' = Reading(t, k, d, 3) + 1
                  /\ UNCHANGED <<last_update_date, last_played_prayer, display>>
             ELSE /\ pc' = pc
                  /\ last_update_date' = current_date
                  /\ last_played_prayer' = r.last_played_prayer
                  /\ display' = Played([r.display EXCEPT
                                          !.today = DateOf(Now(timezone,
                                                               Reading(t, k, d, 1))),
                                          !.refresh = needed])
                  /\ clock' = Reading(t, k, d, 11) + Sec
  /\ UNCHANGED <<side, app, timings, c_prayer_times, c_timezone, fetch_threads, loaded,
                 thread>>

(* ---------------------------------------------------------------- console *)
DigitChar(n) ==
  CASE n = 0 -> "0" [] n = 1 -> "1" [] n = 2 -> "2" [] n = 3 -> "3"
    [] n = 4 -> "4" [] n = 5 -> "5" [] n = 6 -> "6" [] n = 7 -> "7"
    [] n = 8 -> "8" [] n = 9 -> "9"

\* strftime('%H:%M')
TimeString(t) ==
  <<DigitChar(HourOf(t) \div 10), DigitChar(HourOf(t) % 10), ":",
    DigitChar(MinuteOf(t) \div 10), DigitChar(MinuteOf(t) % 10)>>

\* The loop over self.prayer_times.items() of run_live, from index i: every
\* prayer whose time string equals current_time and that is not
\* last_played_prayer plays (play_adhan, then sleep(60)) and becomes it.
RECURSIVE console_check(_, _, _, _)
console_check(pt, current_time, lpp, i) ==
  IF i > Len(PrayerOrder) THEN [last_played_prayer |-> lpp, plays |-> 0]
  ELSE LET p == PrayerOrder[i] IN
       IF p \in DOMAIN pt /\ pt[p] = current_time /\ p # lpp
       THEN LET r == console_check(pt, current_time, p, i + 1)
            IN [r EXCEPT !.plays = @ + 1]
       ELSE console_check(pt, current_time, lpp, i + 1)

\* The record of a turn of the console's loop: the schedule (time strings)
\* it ran on, the reading behind current_time, the date of its date check
\* and whether that made it fetch, the prayer it played (the last one, had
\* it played several); entry is the prayer last played with the date of the
\* turn that played it, again tells that this turn played a prayer already
\* played on its date.
console_pass(pt, now, current_date, needed, chk) ==
  LET before == IF display.console = None THEN None ELSE display.console.entry
  IN [NoDisplay EXCEPT
        !.console =
          [times |-> pt, now |-> now, today |-> current_date,
           refresh |-> needed,
           fired |-> IF chk.plays > 0 THEN chk.last_played_prayer ELSE "None",
           entry |-> IF chk.plays > 0
                     THEN <<chk.last_played_prayer, DateOf(now)>>
                     ELSE before,
           again |-> (chk.plays > 0
                      /\ before = <<chk.last_played_prayer, DateOf(now)>>)]]

\* run_live up to its loop: get_location(), fetch_prayer_times() (read 1),
\* last_fetch_date (read 2), sleep(2).
ConsoleStart ==
  /\ app = "console" /\ pc = "start"
  /\ \E t \in NextFrom(clock, "None"), k \in 2..3, d \in Drifts :
     \E loc1 \in LocationResults, loc2 \in LocationResults :
     \E resp \in TimingsResults(DateOf(Reading(t, k, d, 1))) :
     \E g \in {console_get_location(config, c_timezone, loc1)} :
     \E f \in {console_fetch_prayer_times(g.config, g.timezone, c_prayer_times,
                                           loc2, resp)} :
          /\ upd' = f.ret
          /\ config' = f.config
          /\ c_timezone' = f.timezone
          /\ c_prayer_times' = f.prayer_times
          /\ IF f.ret = "True"
             THEN /\ pc' = "live"
                  /\ last_update_date' = DateOf(Reading(t, k, d, 2))
                  /\ last_played_prayer' = "None"
                  /\ clock' = Reading(t, k, d, 2) + 2 * Sec
             ELSE /\ pc' = "exit"
                  /\ UNCHANGED <<last_update_date, last_played_prayer, clock>>
  /\ UNCHANGED <<side, app, timings, prayer_times, hijri_date, timezone, fetch_threads,
                 loaded, thread, display>>

\* One turn of the loop of run_live: the date check (read 1) with its
\* fetch_prayer_times() (read 2), the printing, the prayer-time check on
\* current_time (read 3), sleep(1).
ConsoleIteration ==
  /\ app = "console" /\ pc = "live"
  /\ \E t \in NextFrom(clock, "None"), k \in 2..4, d \in Drifts :
     \E loc \in IF last_update_date # DateOf(Reading(t, k, d, 1))
                THEN LocationResults ELSE {None} :
     \E resp \in IF last_update_date # DateOf(Reading(t, k, d, 1))
                 THEN TimingsResults(DateOf(Reading(t, k, d, 2))) ELSE {None} :
     \E current_date \in {DateOf(Reading(t, k, d, 1))} :
     \E needed \in {last_update_date # current_date} :
     \E f \in {IF needed
                THEN console_fetch_prayer_times(config, c_timezone,
                                                c_prayer_times, loc, resp)
                ELSE [ret |-> "none", prayer_times |-> c_prayer_times,
                      timezone |-> c_timezone, config |-> config]} :
     \E chk \in {console_check(f.prayer_times,
                                TimeString(Reading(t, k, d, 3)),
                                IF needed THEN "None" ELSE last_played_prayer, 1)} :
          /\ upd' = f.ret
          /\ config' = f.config
          /\ c_timezone' = f.timezone
          /\ c_prayer_times' = f.prayer_times
          /\ last_update_date' = current_date
          /\ last_played_prayer' = chk.last_played_prayer
          /\ clock' = Reading(t, k, d, 3) + chk.plays * 60 * Sec + Sec
          /\ display' = console_pass(f.prayer_times, Reading(t, k, d, 3),
                                     current_date, needed, chk)
  /\ UNCHANGED <<side, app, timings, pc, prayer_times, hijri_date, timezone, fetch_threads,
                 loaded, thread>>

(* ------------------------------------------------------------ AudioPlayer *)
\* play() that does not look at the mute flag.
play_ignoring_mute(mute, playing) == ~playing

\* AudioPlayer.play: whether it starts a thread running _play_audio; it
\* returns without one when the mute flag is set or is_playing is True.
play(mute, playing) == ~mute /\ ~playing

\* Path(audio_file).exists()
FileExists(audio_file) == audio_file = "a1.mp3"

\* The settings the audio player reads: the mute flag and the audio file, one
\* that is there and one that is not.
AudioConfigs ==
  {[mute |-> m, audio_file |-> f] : m \in BOOLEAN, f \in {"a1.mp3", "missing.mp3"}}

\* No pass of check_prayer_time yet.  The record of a pass holds its reading
\* of the clock, the prayer it sent the notification for, the mute flag it
\* found, whether its play() started a thread, and, as silenced, the prayer
\* last acted on with the mute flag set.
NoPass == [now |-> 0, fired |-> "None", muted |-> FALSE, started |-> FALSE,
           silenced |-> "None"]

\* The 1-second timer as far as the audio player goes: check_prayer_time
\* with, for the first current prayer that is not last_played_prayer,
\* audio_player.play(), send_notification() and last_played_prayer.
AudioCheck ==
  /\ app = "gui" /\ pc = "live"
  /\ \E t \in NextFrom(clock, timezone) :
     \E chk \in {gui_check_prayer_time(prayer_times, timezone,
                                       last_played_prayer, t, 10, 0, 0)} :
     \E start \in {chk.fired # "None" /\ play(config.mute, is_playing)} :
          /\ audio_threads' = IF start
                              THEN [audio_threads EXCEPT !.started = @ + 1]
                              ELSE audio_threads
          /\ last_played_prayer' = chk.last_played_prayer
          /\ display' = [now |-> t, fired |-> chk.fired, muted |-> config.mute,
                         started |-> start,
                         silenced |-> IF chk.fired = "None" THEN display.silenced
                                      ELSE IF config.mute THEN chk.fired
                                      ELSE "None"]
          /\ clock' = t + 1
  /\ UNCHANGED <<app, timings, pc, config, prayer_times, hijri_date, timezone,
                 c_prayer_times, c_timezone, last_update_date, fetch_threads,
                 loaded, thread, upd, is_playing, api, config_file, saving>>

\* on_mute_clicked: the mute flag is inverted.
MuteClicked ==
  /\ app = "gui" /\ pc = "live"
  /\ config' = [config EXCEPT !.mute = ~@]
  /\ UNCHANGED <<app, timings, pc, prayer_times, hijri_date, timezone,
                 c_prayer_times, c_timezone, last_played_prayer,
                 last_update_date, fetch_threads, loaded, thread, clock, upd,
                 display, side>>

\* A thread started by play() enters _play_audio: it returns if the file is
\* not there, else it sets is_playing and goes on to the player process.
AudioThreadRun ==
  /\ audio_threads.started > 0
  /\ IF FileExists(config.audio_file)
     THEN /\ is_playing' = TRUE
          /\ audio_threads' = [started |-> audio_threads.started - 1,
                               playing |-> audio_threads.playing + 1]
     ELSE /\ audio_threads' = [audio_threads EXCEPT !.started = @ - 1]
          /\ UNCHANGED is_playing
  /\ UNCHANGED <<app, timings, pc, config, prayer_times, hijri_date, timezone,
                 c_prayer_times, c_timezone, last_played_prayer,
                 last_update_date, fetch_threads, loaded, thread, clock, upd,
                 display, api, config_file, saving>>

\* A thread inside _play_audio is through with the players (one played to
\* its end, none was found, or all failed): finally, is_playing = False.
AudioThreadEnd ==
  /\ audio_threads.playing > 0
  /\ is_playing' = FALSE
  /\ audio_threads' = [audio_threads EXCEPT !.playing = @ - 1]
  /\ UNCHANGED <<app, timings, pc, config, prayer_times, hijri_date, timezone,
                 c_prayer_times, c_timezone, last_played_prayer,
                 last_update_date, fetch_threads, loaded, thread, clock, upd,
                 display, api, config_file, saving>>

\* The GUI on a fresh schedule of day 0, only its audio side running.
InitAudio ==
  /\ app = "gui" /\ timings = FullTimings /\ pc = "live"
  /\ config \in AudioConfigs
  /\ prayer_times = StoreTimes(FullTimings, 0, 1, EmptyDict).prayer_times
  /\ hijri_date = <<>> /\ timezone = "None"
  /\ c_prayer_times = EmptyDict /\ c_timezone = "None"
  /\ last_played_prayer = "None" /\ last_update_date = NoDate
  /\ fetch_threads = 0 /\ loaded = <<>> /\ thread = None
  /\ clock = 0 /\ upd = "none"
  /\ display = NoPass
  /\ Idle

NextAudio == AudioCheck \/ MuteClicked \/ AudioThreadRun \/ AudioThreadEnd

SpecAudio == InitAudio /\ [][NextAudio]_vars

(* ---------------------------------------------------------- retry loops *)
\* A retry loop that sleeps after every failed attempt, the last included.
sleeps_after_always(attempt, retry_attempts) == TRUE

\* except Exception: if attempt < retry_attempts - 1: time.sleep(retry_delay)
sleeps_after(attempt, retry_attempts) == attempt < retry_attempts - 1

\* What a request may end in: the answer looked for (status 'success', code
\* 200), an answer without it, or an exception (timeout, HTTP error, no
\* JSON).
Outcomes == {"ok", "other", "raise"}

\* The configurations of the retry loops: retry_attempts, and a location
\* that is there or is not.
ApiConfigs ==
  {[retry_attempts |-> n, latitude |-> l, longitude |-> "46.7"] :
     n \in 0..MaxAttempts, l \in {"None", "24.7"}}

\* get_location() or fetch_prayer_times() is called.  fetch_prayer_times
\* returns None before its loop without both coordinates; range(0) gives no
\* turn of the loop.  outcomes lists the requests issued with what each
\* ended in, sleeps counts the calls of time.sleep(retry_delay).
ApiCall ==
  /\ api = None
  /\ \E fn \in {"get_location", "fetch_prayer_times"} :
       api' = [fn |-> fn, attempt |-> 0, outcomes |-> <<>>, sleeps |-> 0,
               result |-> "None",
               at |-> IF \/ (fn = "fetch_prayer_times"
                               /\ (Falsy(config.latitude) \/ Falsy(config.longitude)))
                         \/ config.retry_attempts = 0
                      THEN "done" ELSE "request"]
  /\ UNCHANGED <<app, timings, pc, config, prayer_times, hijri_date, timezone,
                 c_prayer_times, c_timezone, last_played_prayer,
                 last_update_date, fetch_threads, loaded, thread, clock, upd,
                 display, is_playing, audio_threads, config_file, saving>>

\* One turn of the for loop up to its sleep: the request; the answer looked
\* for is returned; any other answer goes straight to the next turn; an
\* exception goes to the sleep unless this was the last turn.
ApiRequest ==
  /\ api # None /\ api.at = "request"
  /\ \E o \in Outcomes :
     \E last \in {api.attempt + 1 = config.retry_attempts} :
       api' = [api EXCEPT
                 !.outcomes = Append(@, o),
                 !.result = IF o = "ok" THEN "value" ELSE @,
                 !.attempt = IF o = "other" \/ (o = "raise"
                                  /\ ~sleeps_after(api.attempt, config.retry_attempts))
                             THEN @ + 1 ELSE @,
                 !.at = IF o = "ok" THEN "done"
                        ELSE IF o = "raise"
                                /\ sleeps_after(api.attempt, config.retry_attempts)
                        THEN "sleep"
                        ELSE IF last THEN "done" ELSE "request"]
  /\ UNCHANGED <<app, timings, pc, config, prayer_times, hijri_date, timezone,
                 c_prayer_times, c_timezone, last_played_prayer,
                 last_update_date, fetch_threads, loaded, thread, clock, upd,
                 display, is_playing, audio_threads, config_file, saving>>

\* time.sleep(retry_delay), then the next turn of the loop, or return None
\* after the loop's last turn.
ApiSleep ==
  /\ api # None /\ api.at = "sleep"
  /\ api' = [api EXCEPT !.sleeps = @ + 1, !.attempt = @ + 1,
                        !.at = IF api.attempt + 1 >= config.retry_attempts
                               THEN "done" ELSE "request"]
  /\ UNCHANGED <<app, timings, pc, config, prayer_times, hijri_date, timezone,
                 c_prayer_times, c_timezone, last_played_prayer,
                 last_update_date, fetch_threads, loaded, thread, clock, upd,
                 display, is_playing, audio_threads, config_file, saving>>

\* The call has returned.
ApiReturn ==
  /\ api # None /\ api.at = "done"
  /\ api' = None
  /\ UNCHANGED <<app, timings, pc, config, prayer_times, hijri_date, timezone,
                 c_prayer_times, c_timezone, last_played_prayer,
                 last_update_date, fetch_threads, loaded, thread, clock, upd,
                 display, is_playing, audio_threads, config_file, saving>>

\* The GUI's API client alone, with any retry_attempts of 0..MaxAttempts.
InitApi ==
  /\ app = "gui" /\ timings = FullTimings /\ pc = "live"
  /\ config \in ApiConfigs
  /\ prayer_times = EmptyDict /\ hijri_date = <<>> /\ timezone = "None"
  /\ c_prayer_times = EmptyDict /\ c_timezone = "None"
  /\ last_played_prayer = "None" /\ last_update_date = NoDate
  /\ fetch_threads = 0 /\ loaded = <<>> /\ thread = None
  /\ clock = 0 /\ upd = "none"
  /\ display = NoDisplay
  /\ Idle

NextApi == ApiCall \/ ApiRequest \/ ApiSleep \/ ApiReturn

\* A call that has started runs on: a request ends by its timeout (5 s, 10 s)
\* at the latest, and the sleep is finite.
SpecApi == InitApi /\ [][NextApi]_vars /\ WF_vars(NextApi)

(* ------------------------------------------------------- ConfigManager *)
\* The threads that call ConfigManager.set: the fetch thread (latitude, ...)
\* and the GUI thread (mute, window size, settings).
ConfigThreads == {"fetch", "gui"}

\* Latitudes the location service may give.
Lats == {"24.7", "51.51"}

\* The configurations of this part: one key of each thread.
Configs == [latitude : {"None"} \cup Lats, mute : BOOLEAN]

DEFAULT_CONFIG == [latitude |-> "None", mute |-> FALSE]

\* The JSON text of a number or of None, character by character.
JsonOf(v) ==
  IF v = "None" THEN <<"n", "u", "l", "l">>
  ELSE IF v = "24.7" THEN <<"2", "4", ".", "7">>
  ELSE <<"5", "1", ".", "5", "1">>

\* The JSON text of a flag.
JsonOfBool(b) ==
  IF b THEN <<"t", "r", "u", "e">> ELSE <<"f", "a", "l", "s", "e">>

\* json.dump(self.config, f): the text of the whole dictionary (the key
\* names, the same in every text, are left out).
Dump(c) == <<"{">> \o JsonOf(c.latitude) \o <<",">> \o JsonOfBool(c.mute) \o <<"}">>

\* load(): the dictionary the file's text stands for; any text json.load
\* rejects gives the defaults.
load(text) ==
  IF \E c \in Configs : Dump(c) = text
  THEN CHOOSE c \in Configs : Dump(c) = text
  ELSE DEFAULT_CONFIG

\* A write of text at offset 0 of a file holding old: the bytes under the
\* text are replaced, those behind it stay.
WriteAt0(old, text) ==
  IF Len(text) >= Len(old) THEN text
  ELSE text \o SubSeq(old, Len(text) + 1, Len(old))

\* set(): self.config[key] = value.  The fetch thread stores a latitude, the
\* GUI thread the negated mute flag.
SetAssign ==
  /\ \E t \in ConfigThreads :
       /\ saving[t].at = "idle"
       /\ \E v \in Lats :
            config' = IF t = "fetch" THEN [config EXCEPT !.latitude = v]
                      ELSE [config EXCEPT !.mute = ~config.mute]
       /\ saving' = [saving EXCEPT ![t].at = "assigned"]
  /\ UNCHANGED config_file
  /\ UNCHANGED <<app, timings, pc, prayer_times, hijri_date, timezone,
                 c_prayer_times, c_timezone, last_played_prayer,
                 last_update_date, fetch_threads, loaded, thread, clock, upd,
                 display, is_playing, audio_threads, api>>

\* save(): open(self.config_file, 'w') empties the file.
SaveOpen ==
  /\ \E t \in ConfigThreads :
       /\ saving[t].at = "assigned"
       /\ saving' = [saving EXCEPT ![t].at = "opened"]
  /\ config_file' = <<>>
  /\ UNCHANGED config
  /\ UNCHANGED <<app, timings, pc, prayer_times, hijri_date, timezone,
                 c_prayer_times, c_timezone, last_played_prayer,
                 last_update_date, fetch_threads, loaded, thread, clock, upd,
                 display, is_playing, audio_threads, api>>

\* save(): json.dump writes the text of self.config, as it is now, into the
\* buffer of the thread's file object.
SaveDump ==
  /\ \E t \in ConfigThreads :
       /\ saving[t].at = "opened"
       /\ saving' = [saving EXCEPT ![t].at = "dumped", ![t].f = Dump(config)]
  /\ UNCHANGED <<config, config_file>>
  /\ UNCHANGED <<app, timings, pc, prayer_times, hijri_date, timezone,
                 c_prayer_times, c_timezone, last_played_prayer,
                 last_update_date, fetch_threads, loaded, thread, clock, upd,
                 display, is_playing, audio_threads, api>>

\* save(): leaving the with block closes the file object, which writes its
\* buffer at its own offset, 0; set() returns.
SaveClose ==
  /\ \E t \in ConfigThreads :
       /\ saving[t].at = "dumped"
       /\ config_file' = WriteAt0(config_file, saving[t].f)
       /\ saving' = [saving EXCEPT ![t].at = "idle", ![t].f = <<>>,
                                   ![t].returned = TRUE]
  /\ UNCHANGED config
  /\ UNCHANGED <<app, timings, pc, prayer_times, hijri_date, timezone,
                 c_prayer_times, c_timezone, last_played_prayer,
                 last_update_date, fetch_threads, loaded, thread, clock, upd,
                 display, is_playing, audio_threads, api>>

\* The manager after load() of a file an earlier run has written; no set()
\* is under way.
InitConfig ==
  /\ app = "gui" /\ timings = FullTimings /\ pc = "live"
  /\ config \in Configs
  /\ config_file = Dump(config)
  /\ saving = [t \in ConfigThreads |-> [at |-> "idle", f |-> <<>>, returned |-> FALSE]]
  /\ prayer_times = EmptyDict /\ hijri_date = <<>> /\ timezone = "None"
  /\ c_prayer_times = EmptyDict /\ c_timezone = "None"
  /\ last_played_prayer = "None" /\ last_update_date = NoDate
  /\ fetch_threads = 0 /\ loaded = <<>> /\ thread = None
  /\ clock = 0 /\ upd = "none"
  /\ display = NoDisplay
  /\ is_playing = FALSE /\ audio_threads = [started |-> 0, playing |-> 0]
  /\ api = None

NextConfig == SetAssign \/ SaveOpen \/ SaveDump \/ SaveClose

SpecConfig == InitConfig /\ [][NextConfig]_vars

(* ---------------------------------------------------------- specification *)
Next ==
  \/ GuiTick
  \/ GuiRefreshClicked
  \/ GuiFetchData
  \/ GuiDataLoaded
  \/ TuiInitialize
  \/ TuiIteration
  \/ ConsoleStart
  \/ ConsoleIteration

Spec == Init /\ [][Next]_vars

\* The GUI with its fetch thread inside update() interleaved, statement by
\* statement, with the handlers of the main loop.
InitThread ==
  /\ Init
  /\ app = "gui"
  /\ config.auto_detect_location
  /\ timings \in {FullTimings, Merge(FullTimings, Dict1("Isha", <<>>))}

NextThread ==
  \/ GuiTick
  \/ GuiRefreshClicked
  \/ GuiThreadFetch
  \/ GuiThreadClear
  \/ GuiThreadStore
  \/ GuiThreadFinish
  \/ GuiDataLoaded
  \/ GuiSettingsSaved

SpecThread == InitThread /\ [][NextThread]_vars

\* Runs that start from a configuration file with latitude 0 (a place on the
\* equator), detection switched on or off.
ZeroConfigs ==
  { [auto_detect_location |-> TRUE, latitude |-> "0.0", longitude |-> "46.7",
     timezone |-> "None"],
    [auto_detect_location |-> FALSE, latitude |-> "0.0", longitude |-> "46.7",
     timezone |-> "None"] }

InitZero == InitWith(ZeroConfigs) /\ timings = FullTimings

SpecZero == InitZero /\ [][Next]_vars

\* The GUI with the Refresh button pressed at any time, a fetch in flight or
\* not.
InitRefresh == Init /\ app = "gui" /\ timings = FullTimings

NextRefresh ==
  \/ GuiTick
  \/ GuiRefreshClicked
  \/ GuiRefreshClickedInFlight
  \/ GuiFetchData
  \/ GuiDataLoaded

SpecRefresh == InitRefresh /\ [][NextRefresh]_vars

(* ------------------------------------------------------------- properties *)
\* C1: get_next_prayer scans Fajr, Dhuhr, Asr, Maghrib, Isha in that order and
\* returns the first present prayer whose stored time is strictly after its
\* now, never one whose time equals now; and with all five present and
\* strictly increasing and now strictly between times[Fajr] and times[Isha]
\* the returned instant is the earliest stored time later than now.
C1_FirstLaterInOrder ==
  LET pt == display.times
      now == display.now_next
      later == {p \in DOMAIN pt : pt[p] > now}
      first == CHOOSE i \in 1..Len(PrayerOrder) :
                 /\ PrayerOrder[i] \in later
                 /\ \A j \in 1..(i - 1) : PrayerOrder[j] \notin later
      increasing == /\ DOMAIN pt = Prayers
                    /\ \A i \in 1..(Len(PrayerOrder) - 1) :
                         pt[PrayerOrder[i]] < pt[PrayerOrder[i + 1]]
  IN later # {} =>
       /\ display.next = <<PrayerOrder[first], pt[PrayerOrder[first]]>>
       /\ display.next[2] > now
       /\ (increasing /\ pt["Fajr"] < now /\ now < pt["Isha"]) =>
            \A q \in later : display.next[2] <= pt[q]

\* A display pass at the very instant of Dhuhr of a full schedule: Dhuhr is
\* passed over and Asr returned.
C1_Witness ==
  /\ DOMAIN display.times = Prayers
  /\ display.now_next = display.times["Dhuhr"]
  /\ display.next = <<"Asr", display.times["Asr"]>>

\* C2: when no present prayer has a stored time strictly after now and Fajr
\* is present, get_next_prayer returns Fajr with the stored Fajr time plus
\* exactly one day; so it does for every now after times[Isha] of a schedule
\* whose times increase through the day.
C2_WrapToFajrPlusDay ==
  LET pt == display.times
      now == display.now_next
  IN ("Fajr" \in DOMAIN pt /\ \A p \in DOMAIN pt : pt[p] <= now) =>
       display.next = <<"Fajr", pt["Fajr"] + Day>>

\* A display pass after Isha of a full schedule that wrapped to Fajr.
C2_Witness ==
  /\ DOMAIN display.times = Prayers
  /\ display.now_next > display.times["Isha"]
  /\ display.next = <<"Fajr", display.times["Fajr"] + Day>>

\* C3 as amended: get_next_prayer returns None exactly when Fajr is absent
\* and no present prayer has a stored time strictly after now; a schedule
\* without Fajr still yields its first later prayer.
C3_NoneOnlyWithoutFajrAndLater ==
  LET pt == display.times
      now == display.now_next
  IN (display.next = None) <=>
       ("Fajr" \notin DOMAIN pt /\ \A p \in DOMAIN pt : pt[p] <= now)

\* A display pass on a schedule without Fajr, after its last prayer: None.
C3_Witness ==
  /\ display.times # EmptyDict
  /\ "Fajr" \notin DOMAIN display.times
  /\ \A p \in DOMAIN display.times : display.times[p] <= display.now_next
  /\ display.next = None

\* C3 as stated: get_next_prayer returns None whenever Fajr is absent,
\* whatever other prayers are present.
C3_Original ==
  (display.times # EmptyDict /\ "Fajr" \notin DOMAIN display.times) =>
    display.next = None

\* C4 as stated: for every target at or after now, get_time_remaining returns
\* (h, m, s) with m and s in 0..59 and h*3600 + m*60 + s equal to the whole
\* seconds of target - now, durations of one day or more included.
C4_Original ==
  (display.next # None /\ display.next[2] >= display.now_remaining) =>
    LET r == display.remaining
        whole == (display.next[2] - display.now_remaining) \div Sec
    IN /\ r[2] \in 0..59
       /\ r[3] \in 0..59
       /\ r[1] * 3600 + r[2] * 60 + r[3] = whole

\* A display pass whose next prayer is exactly one day ahead and whose
\* countdown reads (0, 0, 0).
C4_Witness ==
  /\ display.next # None
  /\ display.next[2] - display.now_remaining = Day
  /\ display.remaining = <<0, 0, 0>>

\* C5: for every target strictly before now get_time_remaining returns
\* (0, 0, 0), and so it does when target equals now; no component is ever
\* negative.
C5_PassedTargetIsZero ==
  /\ (display.next # None /\ display.next[2] <= display.now_remaining) =>
       display.remaining = <<0, 0, 0>>
  /\ display.remaining # None =>
       \A i \in 1..3 : display.remaining[i] >= 0

\* A display pass on a stale schedule: the instant returned by
\* get_next_prayer is already behind the clock.
C5_Witness ==
  /\ display.next # None
  /\ display.next[2] < display.now_remaining
  /\ display.remaining = <<0, 0, 0>>

\* C6: is_prayer_time(prayer) is true if and only if the prayer is present
\* in the schedule and now is strictly less than 60 seconds away from its
\* stored time: false at exactly 60 seconds, false for an absent prayer.
C6_StrictlyWithinSixtySeconds ==
  \A p \in DOMAIN display.checked :
    display.checked[p].is <=>
      /\ p \in DOMAIN display.times
      /\ Abs(display.checked[p].now - display.times[p]) < 60 * Sec

\* Dhuhr asked about exactly 60 seconds after its time: not current.
C6_Witness ==
  /\ "Dhuhr" \in DOMAIN display.checked
  /\ "Dhuhr" \in DOMAIN display.times
  /\ display.checked["Dhuhr"].now - display.times["Dhuhr"] = 60 * Sec
  /\ ~display.checked["Dhuhr"].is

\* C7 as stated: in the progress computation windowEnd is the instant
\* returned by get_next_prayer and windowStart is the first prayer of the
\* order Isha, Maghrib, Asr, Dhuhr, Fajr present with a stored time strictly
\* before now, or midnight of now's date if none has passed; hence, on a
\* schedule whose times increase, for now strictly between consecutive
\* present prayers P and Q the window is [times[P], times[Q]] with fraction
\* (now - times[P]) / (times[Q] - times[P]), and after Isha the window is
\* [times[Isha], times[Fajr] + 24h].
C7_Original ==
  display.progress # None =>
    LET pt == display.times
        g == display.progress
        now == g.now
        passed == {p \in DOMAIN pt : pt[p] < now}
        last == CHOOSE i \in 1..Len(ReverseOrder) :
                  /\ ReverseOrder[i] \in passed
                  /\ \A j \in 1..(i - 1) : ReverseOrder[j] \notin passed
        present == {i \in 1..Len(PrayerOrder) : PrayerOrder[i] \in DOMAIN pt}
        increasing == \A i \in present, j \in present :
                        i < j => pt[PrayerOrder[i]] < pt[PrayerOrder[j]]
    IN /\ g.end = display.next[2]
       /\ g.start = IF passed = {} THEN DateOf(now) * Day
                    ELSE pt[ReverseOrder[last]]
       /\ \A i \in present, j \in present :
            (/\ increasing
             /\ i < j
             /\ \A m \in present : ~(i < m /\ m < j)
             /\ pt[PrayerOrder[i]] < now
             /\ now < pt[PrayerOrder[j]])
            => /\ g.start = pt[PrayerOrder[i]]
               /\ g.end = pt[PrayerOrder[j]]
               /\ g.fraction = <<now - pt[PrayerOrder[i]],
                                 pt[PrayerOrder[j]] - pt[PrayerOrder[i]]>>
       /\ (increasing /\ {"Fajr", "Isha"} \subseteq DOMAIN pt /\ now > pt["Isha"])
            => (g.start = pt["Isha"] /\ g.end = pt["Fajr"] + Day)

\* A display pass before the first prayer of the day whose window does not
\* start at midnight.
C7_Witness ==
  /\ display.progress # None
  /\ display.times # EmptyDict
  /\ \A p \in DOMAIN display.times : display.times[p] >= display.progress.now
  /\ display.progress.start # DateOf(display.progress.now) * Day

\* C8: the progress fraction lies in [0, 1] with a positive denominator (no
\* division by zero); it is 0 whenever windowEnd - windowStart is not
\* positive; on a window of positive length it is elapsed / total in between
\* and it is 1 once now is at or beyond the window end.
C8_FractionClamped ==
  display.progress # None =>
    LET g == display.progress
        f == g.fraction
    IN /\ f[2] > 0
       /\ 0 <= f[1] /\ f[1] <= f[2]
       /\ g.end - g.start <= 0 => f[1] = 0
       /\ (g.end - g.start > 0 /\ g.now >= g.end) => f[1] = f[2]
       /\ (g.end - g.start > 0 /\ g.start < g.now /\ g.now < g.end)
            => f = <<g.now - g.start, g.end - g.start>>

\* A display pass on a stale schedule: now is beyond the end of a window of
\* positive length and the fraction is 1.
C8_Witness ==
  /\ display.progress # None
  /\ display.progress.end - display.progress.start > 0
  /\ display.progress.now > display.progress.end
  /\ display.progress.fraction = <<1, 1>>

\* C9 as stated: with all five prayers present and strictly increasing, at
\* now exactly equal to times[Dhuhr] the window is [times[Dhuhr],
\* times[Asr]] and the fraction 0.0, and at now equal to any prayer's stored
\* time the window starts at that prayer.
C9_Original ==
  LET pt == display.times
      g == display.progress
  IN (/\ g # None
      /\ DOMAIN pt = Prayers
      /\ \A i \in 1..(Len(PrayerOrder) - 1) :
           pt[PrayerOrder[i]] < pt[PrayerOrder[i + 1]])
     => /\ g.now = pt["Dhuhr"] =>
             (g.start = pt["Dhuhr"] /\ g.end = pt["Asr"] /\ g.fraction[1] = 0)
        /\ \A p \in Prayers : g.now = pt[p] => g.start = pt[p]

\* A display pass at the very instant of Dhuhr of a full schedule whose
\* window is [times[Fajr], times[Asr]] with a fraction above 0.
C9_Witness ==
  /\ display.progress # None
  /\ DOMAIN display.times = Prayers
  /\ display.progress.now = display.times["Dhuhr"]
  /\ display.now_next = display.times["Dhuhr"]
  /\ display.progress.start = display.times["Fajr"]
  /\ display.progress.end = display.times["Asr"]
  /\ display.progress.fraction[1] > 0

\* C10: a refresh that fails (update() or the console's fetch_prayer_times
\* returns False: no data from the provider, or no location) leaves
\* prayer_times, hijri_date and the timezone used for now as they were, in
\* the GUI, the TUI and the console.
C10_FailedRefreshKeepsSchedule ==
  [][upd' = "False" =>
       UNCHANGED <<prayer_times, hijri_date, timezone, c_prayer_times>>]_vars

\* A refresh has just failed on a manager that holds a schedule, a hijri
\* date and a zone.
C10_Witness ==
  /\ upd = "False"
  /\ prayer_times # EmptyDict
  /\ hijri_date # <<>>
  /\ timezone # "None"

\* C11 as stated: whenever the provider's data reaches update() (GUI, TUI),
\* update() completes successfully, whatever time string fails to parse as
\* HH:MM (fields that are no numbers, hour or minute out of range, no colon,
\* an empty or blank string), and stores exactly the prayers whose string
\* parses.
C11_Original ==
  (app # "console" /\ upd \in {"True", "raised"}) =>
    /\ upd = "True"
    /\ DOMAIN prayer_times =
         {p \in DOMAIN timings :
            ~SplitIsEmpty(timings[p]) /\ TimeParses(SplitFirst(timings[p]))}

\* update() was left by the IndexError of an empty time string: Isha, the
\* malformed entry, is missing, and the update did not complete.
C11_Witness ==
  /\ upd = "raised"
  /\ timings["Isha"] = <<>>
  /\ "Isha" \notin DOMAIN prayer_times
  /\ DOMAIN prayer_times = Prayers \ {"Isha"}

\* C12 as stated: in the GUI every display pass, whatever the interleaving
\* with the fetch thread inside update(), finds either the complete old
\* schedule or the complete new one (prayer_times, hijri_date and timezone
\* together): never an empty or partly filled prayer_times, never the new
\* timezone with the old times.
C12_Original == ~display.torn

\* A display pass that ran between two turns of the loop of update(): of a
\* full schedule being rebuilt it found only Fajr and Dhuhr, the old hijri
\* date still in place.
C12_Witness ==
  /\ display.torn
  /\ thread # None
  /\ thread.old.prayer_times # EmptyDict
  /\ DOMAIN display.times = {"Fajr", "Dhuhr"}
  /\ hijri_date = thread.old.hijri_date

\* C13 as stated: in the GUI and the TUI, on a schedule whose times increase,
\* check_prayer_time triggers playback and the notification exactly once for
\* each entry of now into a present prayer's window (time - 60 s,
\* time + 60 s): a pass that finds a prayer current has triggered them for
\* that prayer and that stored time, in this pass or an earlier one, and no
\* pass triggers them for the same prayer and stored time a second time.
C13_Original ==
  LET pt == display.times
      present == {i \in 1..Len(PrayerOrder) : PrayerOrder[i] \in DOMAIN pt}
      increasing == \A i \in present, j \in present :
                      i < j => pt[PrayerOrder[i]] < pt[PrayerOrder[j]]
  IN increasing =>
       /\ \A p \in DOMAIN display.checked :
            display.checked[p].is => display.entry = <<p, pt[p]>>
       /\ ~display.again

\* A display pass inside the window of Isha of a full schedule that
\* triggered nothing: the last playback was for Isha of the day before, which
\* last_played_prayer still names.
C13_Witness ==
  /\ DOMAIN display.times = Prayers
  /\ "Isha" \in DOMAIN display.checked
  /\ display.checked["Isha"].is
  /\ display.fired = "None"
  /\ display.entry = <<"Isha", display.times["Isha"] - Day>>
  /\ last_played_prayer = "Isha"

\* C14 as stated: whenever, at a pass of the polling loop, the current date
\* observed in the configured time zone differs from the date the stored
\* schedule was built for, that pass triggers a refresh.
C14_Original ==
  (/\ display.checked # EmptyDict
   /\ \E p \in DOMAIN display.times : DateOf(display.times[p]) # display.today)
  => display.refresh

\* A TUI pass just after midnight of the configured zone, the machine's own
\* date unchanged: the schedule is the one of the day before and no refresh
\* was asked for.
C14_Witness ==
  /\ app = "tui"
  /\ timezone = "Asia/Riyadh"
  /\ display.checked # EmptyDict
  /\ display.times # EmptyDict
  /\ \A p \in DOMAIN display.times : DateOf(display.times[p]) = display.today - 1
  /\ ~display.refresh
  /\ DateOf(clock) = last_update_date

\* C15 as stated: after a refresh has failed, at startup or at a day
\* rollover, the polling loop keeps attempting refreshes: every pass of the
\* TUI that starts on a schedule older than the date the loop last saw (the
\* rollover refresh failed), and every pass of the GUI that starts with no
\* result ever handled and no fetch in flight (the startup fetch failed),
\* asks for a refresh.
C15_Original ==
  [][(/\ display' # display
      /\ \/ /\ app = "tui" /\ pc = "live"
            /\ \E p \in DOMAIN prayer_times :
                 DateOf(prayer_times[p]) < last_update_date
         \/ /\ app = "gui"
            /\ last_update_date = NoDate /\ InFlight = 0)
     => display'.refresh]_vars

\* A TUI pass on the day after a failed rollover refresh: yesterday's
\* schedule is shown, the loop's date is today's, and no refresh was asked
\* for.
C15_Witness ==
  /\ app = "tui"
  /\ upd = "none"
  /\ display.checked # EmptyDict
  /\ display.times = prayer_times
  /\ prayer_times # EmptyDict
  /\ \A p \in DOMAIN prayer_times : DateOf(prayer_times[p]) < last_update_date
  /\ display.today = last_update_date
  /\ ~display.refresh

\* C16 (as stated): no query raises in any reachable state: whatever schedule
\* is stored, built with or without a timezone, and whatever timezone is in
\* effect at query time, no display pass ends in an exception raised by
\* get_next_prayer, get_time_remaining, is_prayer_time or the progress
\* computation.
C16_Original == ~display.raised

\* A pass of the timer raised: the fetch thread started by new settings has
\* assigned self.timezone = None for the unresolvable name and has not yet
\* emptied the schedule stored with the zone of Riyadh.
C16_Witness ==
  /\ display.raised
  /\ thread # None /\ thread.at = 0
  /\ config.timezone = "Nowhere/Zone"
  /\ timezone = "None" /\ thread.old.timezone = "Asia/Riyadh"
  /\ DOMAIN prayer_times = Prayers

\* C17: a display pass that makes no refresh (the queries get_next_prayer,
\* get_time_remaining, is_prayer_time and the progress computation are all
\* it calls on the manager) leaves prayer_times, hijri_date and timezone
\* unchanged, and each query, called once more on the schedule as the pass
\* left it with the now of its first call, returns the result the pass got.
C17_QueriesArePure ==
  [][(display' # display /\ upd' = "none" /\ thread = None)
       => /\ manager' = manager
          /\ display'.next = get_next_prayer(prayer_times', display'.now_next)
          /\ display'.next # None =>
               /\ display'.remaining
                    = get_time_remaining(display'.next[2], display'.now_remaining)
               /\ display'.progress
                    = progress_window(prayer_times', display'.next[2], display'.now)
          /\ \A p \in DOMAIN display'.checked :
               display'.checked[p].is
                 = is_prayer_time(prayer_times', p, display'.checked[p].now)]_vars

\* A pass over a full schedule in a known zone with a hijri date has run all
\* four queries: a next prayer with its countdown and progress, and the five
\* is_prayer_time answers, one of them True.
C17_Witness ==
  /\ upd = "none"
  /\ DOMAIN prayer_times = Prayers /\ display.times = prayer_times
  /\ hijri_date # <<>> /\ timezone = "Asia/Riyadh"
  /\ display.next # None /\ display.remaining # None /\ display.progress # None
  /\ \E p \in DOMAIN display.checked : display.checked[p].is

\* C18 (as stated): in every front-end the provider refresh runs outside the
\* tick of the polling loop: no step that is a tick (the GUI's timer pass, a
\* turn of the TUI's or of the console's loop) contains a refresh, that is,
\* waits for the provider's answer before the display goes on.
C18_Original ==
  [][(GuiTick \/ TuiIteration \/ ConsoleIteration) => upd' = "none"]_vars

\* A turn of the TUI's loop that waited for update(): the pass asked for the
\* refresh, the refresh returned within the same turn, and the turn then
\* went through check_prayer_time.
C18_Witness ==
  /\ app = "tui" /\ pc = "live"
  /\ upd \in {"True", "False"}
  /\ display.refresh
  /\ display.checked # EmptyDict

C20_Original ==
  (app # "console" /\ upd = "True")
    => timezone = IF config.timezone \in KnownZones THEN config.timezone
                  ELSE "None"

\* A successful update() with an empty configured name, made after an
\* earlier one had resolved Asia/Riyadh: the manager still uses that zone.
C20_Witness ==
  /\ upd = "True"
  /\ config.timezone = "" /\ config.latitude = "21.4"
  /\ timezone = "Asia/Riyadh"
  /\ DOMAIN prayer_times = Prayers
  /\ \A p \in Prayers : DateOf(prayer_times[p]) = DateOf(Now("Asia/Riyadh", clock))

\* C23 (as stated): in every reachable state of the GUI and of the TUI, a
\* schedule kept after a failed rollover refresh included, the instant
\* get_next_prayer returned to a display pass is strictly after the now it
\* compared with.
C23_Original ==
  (app # "console" /\ display.next # None) => display.next[2] > display.now_next

\* A TUI pass on the day after a failed rollover refresh, past that day's
\* Fajr: yesterday's full schedule is still stored, get_next_prayer wrapped
\* to yesterday's Fajr plus one day, which has passed, and the countdown
\* stands at (0, 0, 0).
C23_Witness ==
  /\ app = "tui" /\ pc = "live"
  /\ DOMAIN display.times = Prayers
  /\ \A p \in Prayers : DateOf(display.times[p]) = DateOf(display.now_next) - 1
  /\ display.next # None /\ display.next[1] = "Fajr"
  /\ display.next[2] = display.times["Fajr"] + Day
  /\ display.next[2] < display.now_next
  /\ display.remaining = <<0, 0, 0>>

\* C27 (as stated): in every successful update() the date for which the
\* timings were requested is the date onto which the returned times are
\* stamped: the hijri date that came with the answer is that of the date the
\* stored times carry.
C27_Original ==
  (app # "console" /\ upd = "True")
    => \A p \in DOMAIN prayer_times :
         hijri_date = HijriLabel(Answer(timings, DateOf(prayer_times[p])).hijri)

\* A successful update() made while Asia/Riyadh is a day ahead of the
\* machine: the answer is the one for the machine's date, the five times are
\* stamped with the zone's date.
C27_Witness ==
  /\ app # "console" /\ upd = "True"
  /\ timezone = "Asia/Riyadh"
  /\ DOMAIN prayer_times = Prayers
  /\ \E date \in 0..MaxDay :
       /\ hijri_date = HijriLabel(Answer(timings, date).hijri)
       /\ \A p \in Prayers : DateOf(prayer_times[p]) = date + 1

\* C26 (as stated): fetch_prayer_times gives up for a missing location only
\* when latitude or longitude is unset: with both coordinates configured as
\* numbers, latitude 0 or longitude 0 included, it issues the timings request
\* and hands back what the provider answers, in the GUI and the TUI whatever
\* get_location() returned, in the console when detection is off or finds
\* the location.
C26_Original ==
  (config.latitude \notin {"None", ""} /\ config.longitude \notin {"None", ""})
    => \A resp \in TimingsResults(DateOf(clock)) :
         /\ app # "console" =>
              \A loc \in Located(config) :
                 api_fetch_prayer_times(config, loc, resp).data = resp
         /\ (app = "console" /\ resp # None) =>
              console_fetch_prayer_times(config, c_timezone, c_prayer_times,
                                         Riyadh, resp).ret = "True"

\* The GUI's fetch thread has finished with coordinates (0.0, 46.7)
\* configured by hand: update() returned False and the schedule is empty.
C26_Witness ==
  /\ app = "gui" /\ upd = "False"
  /\ config.latitude = "0.0" /\ config.longitude = "46.7"
  /\ ~config.auto_detect_location
  /\ prayer_times = EmptyDict /\ loaded = <<"False">>

\* C24 (as stated): in the GUI at most one fetch thread is in flight at any
\* time: initialize_data() is never started while a thread started earlier
\* has not yet had its result handled by on_data_loaded.
C24_Original == app = "gui" => InFlight <= 1

\* Two fetch threads run at once: the Refresh button was pressed while the
\* thread started at startup was still inside update().
C24_Witness ==
  /\ app = "gui" /\ pc = "live"
  /\ fetch_threads = 2 /\ loaded = <<>>
  /\ prayer_times = EmptyDict /\ last_update_date = NoDate

\* C28 (as stated): for every fresh schedule with all five prayers and every
\* now on the schedule's date, the console's get_next_prayer, run on the
\* provider's strings of that schedule with the same clock, names the prayer
\* the GUI's get_next_prayer names, and get_time_until_prayer gives the
\* (hours, minutes, seconds) of the GUI's get_time_remaining.
C28_Original ==
  (/\ app # "console" /\ display.next # None
   /\ DOMAIN timings = Prayers /\ DOMAIN display.times = Prayers
   /\ \A p \in Prayers : DateOf(display.times[p]) = DateOf(display.now_next)
   /\ DateOf(display.now_remaining) = DateOf(display.now_next))
    => LET c == console_get_next_prayer(timings, TimeString(display.now_next))
       IN /\ c[1] = display.next[1]
          /\ get_time_until_prayer(c[2], display.now_remaining) = display.remaining

\* A pass at 14:00 over a fresh full schedule whose Asr string is
\* "15:45 (EET)": the GUI counts down 1 h 45 min to Asr, the console names
\* Asr too but its countdown is (0, 0, 0).
C28_Witness ==
  /\ app = "gui" /\ display.next # None /\ display.next[1] = "Asr"
  /\ timings = FullTimings /\ DOMAIN display.times = Prayers
  /\ \A p \in Prayers : DateOf(display.times[p]) = DateOf(display.now_next)
  /\ display.remaining = <<1, 45, 0>>
  /\ get_time_until_prayer(timings["Asr"], display.now_remaining) = <<0, 0, 0>>

\* C22 (as stated): in the console each prayer's adhan is triggered at most
\* once per calendar day, and it has been triggered, in this turn of the loop
\* or earlier that day, whenever the turn sampled the clock within the
\* prayer's HH:MM minute; a turn that found a new date has cleared
\* last_played_prayer before its check.
C22_Original ==
  (app = "console" /\ pc = "live" /\ display.console # None)
    => /\ ~display.console.again
       /\ \A p \in DOMAIN display.console.times :
            SplitFirst(display.console.times[p]) = TimeString(display.console.now)
              => display.console.entry = <<p, DateOf(display.console.now)>>
       /\ (display.console.refresh /\ display.console.fired = "None")
            => last_played_prayer = "None"

\* A turn of the console's loop at 15:45, the minute of Asr, whose stored
\* string is "15:45 (EET)": nothing was played, the last adhan is still that
\* of Dhuhr.
C22_Witness ==
  /\ app = "console" /\ pc = "live" /\ display.console # None
  /\ DOMAIN display.console.times = Prayers
  /\ display.console.times["Asr"] = S_Asr
  /\ TimeString(display.console.now) = SplitFirst(S_Asr)
  /\ display.console.fired = "None"
  /\ display.console.entry = <<"Dhuhr", DateOf(display.console.now)>>

\* C25 (as stated): the audio player plays at most one file at a time: no
\* two playback threads are past play()'s guard at once, whatever the
\* sequence and interleaving of play() calls and threads, and is_playing is
\* False again once every playback attempt has ended.
C25_Original ==
  /\ audio_threads.started + audio_threads.playing <= 1
  /\ (audio_threads.started + audio_threads.playing = 0) => ~is_playing

\* Two threads run the player at once: the second play() found is_playing
\* still False because the first thread had not yet set it.
C25_Witness ==
  /\ audio_threads.playing = 2 /\ is_playing
  /\ ~config.mute /\ FileExists(config.audio_file)
  /\ last_played_prayer = "Dhuhr"

\* C30: a pass of check_prayer_time made with the mute flag set starts no
\* playback thread, yet it sends the notification for the first current
\* prayer that is not last_played_prayer and records it there; a playback
\* thread is started only by a pass that finds the flag clear and acts on
\* such a prayer, so none is started later for a prayer already recorded.
C30_MutedPassStillRecords ==
  [][clock' # clock
       => LET due == {p \in Prayers :
                        /\ is_prayer_time(prayer_times, p, display'.now)
                        /\ p # last_played_prayer}
          IN /\ config.mute => audio_threads' = audio_threads
             /\ (config.mute /\ due # {})
                  => display'.fired \in due /\ last_played_prayer' = display'.fired
             /\ audio_threads'.started > audio_threads.started
                  => ~config.mute /\ display'.fired \in due]_vars

\* The mute flag was cleared inside Dhuhr's window after a muted pass had
\* sent Dhuhr's notification: the pass that follows, still inside the
\* window, starts no thread, and none is running.
C30_Witness ==
  /\ ~config.mute /\ ~display.muted
  /\ display.silenced = "Dhuhr" /\ last_played_prayer = "Dhuhr"
  /\ is_prayer_time(prayer_times, "Dhuhr", display.now)
  /\ display.fired = "None" /\ ~display.started
  /\ audio_threads = [started |-> 0, playing |-> 0] /\ ~is_playing

\* The requests of a call that ended in an exception before the last turn of
\* its loop.
C29_Pauses ==
  Cardinality({i \in 1..Len(api.outcomes) :
                 api.outcomes[i] = "raise" /\ i < config.retry_attempts})

\* What holds of a call of get_location or fetch_prayer_times at every point.
C29_Bounded ==
  api # None =>
    /\ Len(api.outcomes) <= config.retry_attempts
    /\ \A i \in 1..Len(api.outcomes) :
         api.outcomes[i] = "ok" =>
           i = Len(api.outcomes) /\ api.at = "done" /\ api.result = "value"
    /\ api.result = "value" =>
         Len(api.outcomes) >= 1 /\ api.outcomes[Len(api.outcomes)] = "ok"
    /\ api.sleeps + (IF api.at = "sleep" THEN 1 ELSE 0) = C29_Pauses
    /\ api.at = "done" =>
         /\ api.sleeps = 0 \/ api.sleeps < Len(api.outcomes)
         /\ (\A i \in 1..Len(api.outcomes) : api.outcomes[i] # "ok") =>
              api.result = "None"
         /\ ( /\ config.retry_attempts >= 1
              /\ (api.fn = "fetch_prayer_times" =>
                    ~Falsy(config.latitude) /\ ~Falsy(config.longitude)) ) =>
              /\ Len(api.outcomes) >= 1
              /\ api.result = "None" =>
                   Len(api.outcomes) = config.retry_attempts

\* C29: in the GUI a call of get_location or of fetch_prayer_times ends, after
\* at most retry_attempts requests; it returns at the first request that
\* gives the answer looked for and returns None when none does; it sleeps
\* retry_delay only after a request that raised and is not the last one; and
\* with retry_attempts >= 1 and a location it issues at least one request.
C29_RetryLoopsEnd ==
  /\ []C29_Bounded
  /\ (api # None) ~> (api # None /\ api.at = "done")

\* A call has returned None after retry_attempts >= 2 requests, all of which
\* raised, and has slept between them only.
C29_Witness ==
  /\ api # None /\ api.at = "done" /\ api.result = "None"
  /\ config.retry_attempts >= 2
  /\ Len(api.outcomes) = config.retry_attempts
  /\ \A i \in 1..Len(api.outcomes) : api.outcomes[i] = "raise"
  /\ api.sleeps = config.retry_attempts - 1

\* C21 as stated: once every set() has returned, the file is the text of the
\* configuration in memory and load() of it gives the same values.
C21_Original ==
  (\A t \in ConfigThreads : saving[t].at = "idle") =>
    config_file = Dump(config) /\ load(config_file) = config

\* Both threads have returned from set() and none is under way; the file is
\* text json.load rejects, and load() gives the defaults, not the values in
\* memory.
C21_Witness ==
  /\ \A t \in ConfigThreads : saving[t].at = "idle" /\ saving[t].returned
  /\ \A c \in Configs : Dump(c) # config_file
  /\ load(config_file) = DEFAULT_CONFIG
  /\ config # DEFAULT_CONFIG

====
